---- MODULE Spec2Model ----
(***************************************************************************)
(* Streaming tool-call extraction of the OpenAI-compatible chat server:    *)
(* the diff utilities and the Mistral / Hermes-2-Pro tool parsers of       *)
(* vllm/entrypoints/openai/tool_parsers.py, and the streaming driver       *)
(* chat_completion_stream_generator of serving_chat.py.                    *)
(*                                                                         *)
(* A Python str is a sequence of one-character strings.  The texts used    *)
(* contain no backslash and no character outside ASCII, so json.dumps      *)
(* escapes nothing inside a string literal.                                *)
(***************************************************************************)
EXTENDS Integers, Sequences, FiniteSets, TLC

(***************************************************************************)
(* Python str primitives                                                   *)
(***************************************************************************)
Min(a, b) == IF a <= b THEN a ELSE b

\* s[a:b] with 0-based, already clipped, bounds
Slice(s, a, b) == IF b <= a THEN <<>> ELSE SubSeq(s, a + 1, b)

Reverse(s) == [k \in 1..Len(s) |-> s[Len(s) + 1 - k]]

\* s[at:].startswith(sub)
MatchAt(s, sub, at) ==
    /\ at + Len(sub) <= Len(s)
    /\ \A k \in 1..Len(sub) : s[at + k] = sub[k]

\* s.find(sub, from): lowest 0-based index >= from, -1 when absent
FindFrom(s, sub, from) ==
    LET hits == {a \in from..(Len(s) - Len(sub)) : MatchAt(s, sub, a)}
    IN  IF hits = {} THEN -1 ELSE CHOOSE a \in hits : \A b \in hits : a <= b

Find(s, sub) == FindFrom(s, sub, 0)

\* sub in s
Contains(s, sub) == Find(s, sub) # -1

\* s.replace(sub, '', 1)
RemoveFirst(s, sub) ==
    LET a == Find(s, sub)
    IN  IF a = -1 \/ sub = <<>> THEN s
        ELSE Slice(s, 0, a) \o Slice(s, a + Len(sub), Len(s))

RECURSIVE RemoveAllFrom(_, _, _)
RemoveAllFrom(s, sub, from) ==
    LET a == FindFrom(s, sub, from)
    IN  IF a = -1 THEN Slice(s, from, Len(s))
        ELSE Slice(s, from, a) \o RemoveAllFrom(s, sub, a + Len(sub))

\* s.replace(sub, '')
RemoveAll(s, sub) == IF sub = <<>> THEN s ELSE RemoveAllFrom(s, sub, 0)

\* s.replace("'", '"')
ReplaceQuotes(s) == [k \in 1..Len(s) |-> IF s[k] = "'" THEN "\"" ELSE s[k]]

\* s.split(sep): the list of pieces
RECURSIVE SplitFrom(_, _, _)
SplitFrom(s, sep, from) ==
    LET a == FindFrom(s, sep, from)
    IN  IF a = -1 THEN <<Slice(s, from, Len(s))>>
        ELSE <<Slice(s, from, a)>> \o SplitFrom(s, sep, a + Len(sep))

Split(s, sep) == SplitFrom(s, sep, 0)

IsPrefix(p, s) == Len(p) <= Len(s) /\ SubSeq(s, 1, Len(p)) = p

\* str.isalnum() of one ASCII character
AlNum ==
    {"a","b","c","d","e","f","g","h","i","j","k","l","m","n","o","p","q",
     "r","s","t","u","v","w","x","y","z",
     "A","B","C","D","E","F","G","H","I","J","K","L","M","N","O","P","Q",
     "R","S","T","U","V","W","X","Y","Z",
     "0","1","2","3","4","5","6","7","8","9"}

isalnum(c) == c \in AlNum

(***************************************************************************)
(* Diff utilities                                                          *)
(***************************************************************************)
find_common_prefix(s1, s2) ==
    LET min_length == Min(Len(s1), Len(s2))
        stop == {k \in 1..min_length : s1[k] # s2[k]}
        n == IF stop = {} THEN min_length
             ELSE (CHOOSE k \in stop : \A j \in stop : k <= j) - 1
    IN  SubSeq(s1, 1, n)

\* variant of find_common_suffix: the scan does not stop at an alphanumeric
find_common_suffix_any(s1, s2) ==
    LET min_length == Min(Len(s1), Len(s2))
        stop == {k \in 1..min_length : s1[Len(s1) + 1 - k] # s2[Len(s2) + 1 - k]}
        n == IF stop = {} THEN min_length
             ELSE (CHOOSE k \in stop : \A j \in stop : k <= j) - 1
    IN  SubSeq(s1, Len(s1) - n + 1, Len(s1))

find_common_suffix(s1, s2) ==
    LET min_length == Min(Len(s1), Len(s2))
        ok(k) == /\ s1[Len(s1) + 1 - k] = s2[Len(s2) + 1 - k]
                 /\ ~isalnum(s1[Len(s1) + 1 - k])
        stop == {k \in 1..min_length : ~ok(k)}
        n == IF stop = {} THEN min_length
             ELSE (CHOOSE k \in stop : \A j \in stop : k <= j) - 1
    IN  SubSeq(s1, Len(s1) - n + 1, Len(s1))

extract_intermediate_diff(curr, old) ==
    LET suffix == find_common_suffix(curr, old)
        old2 == Reverse(RemoveFirst(Reverse(old), Reverse(suffix)))
        prefix == find_common_prefix(curr, old2)
        d1 == IF Len(suffix) > 0
              THEN Reverse(RemoveFirst(Reverse(curr), Reverse(suffix)))
              ELSE curr
    IN  IF Len(prefix) > 0 THEN RemoveFirst(d1, prefix) ELSE d1

(***************************************************************************)
(* JSON values.  A value is a record [t, s, m]: t is "s" (string, text in  *)
(* s), "o" (dict, members in m in insertion order), "a" (list, items in m) *)
(* or "none" (Python None, what dict.get returns for a missing key).       *)
(***************************************************************************)
NoneV == [t |-> "none", s |-> <<>>, m |-> <<>>]
StrV(x) == [t |-> "s", s |-> x, m |-> <<>>]
ObjV(mem) == [t |-> "o", s |-> <<>>, m |-> mem]
ArrV(items) == [t |-> "a", s |-> <<>>, m |-> items]
EmptyDict == ObjV(<<>>)

\* bool(v) as used by `if diff:` and `not cur_arguments`
Truthy(v) ==
    CASE v.t = "none" -> FALSE
      [] v.t = "s" -> v.s # <<>>
      [] OTHER -> v.m # <<>>

\* d[k] = v on an insertion-ordered dict
DictSet(mem, k, v) ==
    IF \E j \in 1..Len(mem) : mem[j].k = k
    THEN [j \in 1..Len(mem) |-> IF mem[j].k = k THEN [k |-> k, v |-> v] ELSE mem[j]]
    ELSE Append(mem, [k |-> k, v |-> v])

\* d.get(k)
DictGet(d, k) ==
    IF d.t = "o" /\ \E j \in 1..Len(d.m) : d.m[j].k = k
    THEN d.m[CHOOSE j \in 1..Len(d.m) : d.m[j].k = k].v
    ELSE NoneV

HasKey(d, k) == d.t = "o" /\ \E j \in 1..Len(d.m) : d.m[j].k = k

KeyName == <<"n","a","m","e">>
KeyArguments == <<"a","r","g","u","m","e","n","t","s">>

DQ == "\""

\* json.dumps(v): separators ", " and ": ", keys in insertion order
RECURSIVE Dumps(_), DumpsMembers(_, _, _)
DumpsMembers(mem, j, isObj) ==
    IF j > Len(mem) THEN <<>>
    ELSE (IF j > 1 THEN <<",", " ">> ELSE <<>>)
         \o (IF isObj THEN <<DQ>> \o mem[j].k \o <<DQ, ":", " ">> ELSE <<>>)
         \o Dumps(mem[j].v)
         \o DumpsMembers(mem, j + 1, isObj)

Dumps(v) ==
    CASE v.t = "s" -> <<DQ>> \o v.s \o <<DQ>>
      [] v.t = "o" -> <<"{">> \o DumpsMembers(v.m, 1, TRUE) \o <<"}">>
      [] v.t = "a" -> <<"[">> \o DumpsMembers(v.m, 1, FALSE) \o <<"]">>
      [] OTHER -> <<"n","u","l","l">>

(***************************************************************************)
(* partial_json_parser.loads(text, flags), for the JSON made of strings,   *)
(* dicts and lists.  ARR and OBJ are allowed by both flag values the       *)
(* parsers use; allowStr is Allow.STR.  An unfinished list or dict is      *)
(* closed where the text ends; an unfinished key, or a key whose value has *)
(* not started, is dropped; an unfinished string value is closed when      *)
(* allowStr and dropped with its key otherwise.  A parse result is         *)
(* [st, has, v, i]: st is "ok" (value complete, i the next position),      *)
(* "partial" (text ended; v is the value so far when has) or "err".        *)
(***************************************************************************)
Blank == {" ", "\n", "\t", "\r"}

RECURSIVE SkipBlank(_, _)
SkipBlank(s, p) ==
    IF p <= Len(s) /\ s[p] \in Blank THEN SkipBlank(s, p + 1) ELSE p

PErr == [st |-> "err", has |-> FALSE, v |-> NoneV, i |-> 0]
POk(v, i) == [st |-> "ok", has |-> TRUE, v |-> v, i |-> i]
PPartial(v) == [st |-> "partial", has |-> TRUE, v |-> v, i |-> 0]
PDropped == [st |-> "partial", has |-> FALSE, v |-> NoneV, i |-> 0]

\* position (1-based) of the quote closing the string opened at p, 0 if none
CloseQuote(s, p) ==
    LET hits == {q \in (p + 1)..Len(s) : s[q] = DQ}
    IN  IF hits = {} THEN 0 ELSE CHOOSE q \in hits : \A r \in hits : q <= r

\* variant of ParseStr: an unfinished string is closed whatever the flags say
ParseStrClosing(s, p, allowStr) ==
    LET q == CloseQuote(s, p)
    IN  IF q # 0 THEN POk(StrV(SubSeq(s, p + 1, q - 1)), q + 1)
        ELSE PPartial(StrV(SubSeq(s, p + 1, Len(s))))

ParseStr(s, p, allowStr) ==
    LET q == CloseQuote(s, p)
    IN  IF q # 0 THEN POk(StrV(SubSeq(s, p + 1, q - 1)), q + 1)
        ELSE IF allowStr THEN PPartial(StrV(SubSeq(s, p + 1, Len(s))))
        ELSE PDropped

RECURSIVE ParseAny(_, _, _), ParseObj(_, _, _, _), ParseArr(_, _, _, _)
ParseAny(s, p, allowStr) ==
    CASE s[p] = DQ -> ParseStr(s, p, allowStr)
      [] s[p] = "{" -> ParseObj(s, p + 1, <<>>, allowStr)
      [] s[p] = "[" -> ParseArr(s, p + 1, <<>>, allowStr)
      [] OTHER -> PErr

\* the members of a dict from position p on, acc the members read so far
ParseObj(s, p, acc, allowStr) ==
    LET q == SkipBlank(s, p)
        kEnd == CloseQuote(s, q)
        key == SubSeq(s, q + 1, kEnd - 1)
        colon == SkipBlank(s, kEnd + 1)
        vStart == SkipBlank(s, colon + 1)
        val == ParseAny(s, vStart, allowStr)
        acc2 == DictSet(acc, key, val.v)
        after == SkipBlank(s, val.i)
    IN  IF q > Len(s) THEN PPartial(ObjV(acc))
        ELSE IF s[q] = "}" THEN POk(ObjV(acc), q + 1)
        ELSE IF s[q] # DQ THEN PErr
        ELSE IF kEnd = 0 THEN PPartial(ObjV(acc))
        ELSE IF colon > Len(s) THEN PPartial(ObjV(acc))
        ELSE IF s[colon] # ":" THEN PErr
        ELSE IF vStart > Len(s) THEN PPartial(ObjV(acc))
        ELSE IF val.st = "err" THEN PErr
        ELSE IF val.st = "partial"
             THEN PPartial(ObjV(IF val.has THEN acc2 ELSE acc))
        ELSE IF after > Len(s) THEN PPartial(ObjV(acc2))
        ELSE IF s[after] = "," THEN ParseObj(s, after + 1, acc2, allowStr)
        ELSE IF s[after] = "}" THEN POk(ObjV(acc2), after + 1)
        ELSE PErr

\* the items of a list from position p on, acc the items read so far
ParseArr(s, p, acc, allowStr) ==
    LET q == SkipBlank(s, p)
        val == ParseAny(s, q, allowStr)
        acc2 == Append(acc, [k |-> <<>>, v |-> val.v])
        after == SkipBlank(s, val.i)
    IN  IF q > Len(s) THEN PPartial(ArrV(acc))
        ELSE IF s[q] = "]" THEN POk(ArrV(acc), q + 1)
        ELSE IF val.st = "err" THEN PErr
        ELSE IF val.st = "partial"
             THEN PPartial(ArrV(IF val.has THEN acc2 ELSE acc))
        ELSE IF after > Len(s) THEN PPartial(ArrV(acc2))
        ELSE IF s[after] = "," THEN ParseArr(s, after + 1, acc2, allowStr)
        ELSE IF s[after] = "]" THEN POk(ArrV(acc2), after + 1)
        ELSE PErr

\* the call result: ok = no exception, v = the parsed value
PartialLoads(text, allowStr) ==
    LET p == SkipBlank(text, 1)
        r == ParseAny(text, p, allowStr)
    IN  IF p > Len(text) THEN [ok |-> FALSE, v |-> NoneV]
        ELSE IF r.st = "err" THEN [ok |-> FALSE, v |-> NoneV]
        ELSE IF r.st = "partial" THEN [ok |-> r.has, v |-> r.v]
        ELSE IF SkipBlank(text, r.i) <= Len(text) THEN [ok |-> FALSE, v |-> NoneV]
        ELSE [ok |-> TRUE, v |-> r.v]

\* json.loads(text): the whole text is one complete value
JsonLoads(text) ==
    LET p == SkipBlank(text, 1)
        r == ParseAny(text, p, FALSE)
    IN  IF p > Len(text) \/ r.st # "ok" THEN [ok |-> FALSE, v |-> NoneV]
        ELSE IF SkipBlank(text, r.i) <= Len(text) THEN [ok |-> FALSE, v |-> NoneV]
        ELSE [ok |-> TRUE, v |-> r.v]

(***************************************************************************)
(* Delta messages.  A DeltaMessage built by the code carries exactly one   *)
(* thing; kind says which: "none" (the parser returned None), "role",      *)
(* "content", "initial" (InitialDeltaToolCall: id, type and index),        *)
(* "name" (function.name), "args" (function.arguments) or "call" (the      *)
(* ToolCall of a named tool choice: fixed name and arguments).             *)
(***************************************************************************)
Delta(kind, index, text) == [kind |-> kind, index |-> index, text |-> text]
NoDelta == Delta("none", 0, <<>>)
ToolKinds == {"initial", "name", "args"}

(***************************************************************************)
(* ToolParser state, as set by ToolParser.__init__                         *)
(***************************************************************************)
NewParser ==
    [prev_tool_call_arr |-> <<>>,
     current_tool_id |-> -1,
     current_tool_name_sent |-> FALSE,
     current_tool_initial_sent |-> FALSE,
     streamed_args_for_tool |-> <<>>]

\* the result of one extract_tool_calls_streaming call
Ret(tp, d) == [tp |-> tp, d |-> d]

\* the elements of a parsed top-level value that supports len() and [int]:
\* the items of a list, the characters of a str
Items(v) ==
    IF v.t = "s" THEN [k \in 1..Len(v.s) |-> StrV(<<v.s[k]>>)]
    ELSE [k \in 1..Len(v.m) |-> v.m[k].v]

\* lst[i] of a Python list: seq index of i, 0 when out of range
PyIndex(lst, i) ==
    IF i >= 0 THEN (IF i < Len(lst) THEN i + 1 ELSE 0)
    ELSE (IF -i <= Len(lst) THEN Len(lst) + i + 1 ELSE 0)

(***************************************************************************)
(* MistralToolParser                                                       *)
(***************************************************************************)
bot_token == <<"[","T","O","O","L","_","C","A","L","L","S","]">>
bot_token_id == 5

\* variant of InSeq: only the newest element is looked at
InSeqNewest(x, seq) == Len(seq) > 0 /\ seq[Len(seq)] = x

InSeq(x, seq) == \E k \in 1..Len(seq) : seq[k] = x

\* variant of MistralArguments: the parsed array is saved before the delta
\* text is looked up in the serialized arguments
MistralArgumentsSaving(tp, tool_call_arr, current_tool_call, delta_text) ==
    LET id == tp.current_tool_id
        pIdx == PyIndex(tp.prev_tool_call_arr, id)
        prev_arguments == DictGet(tp.prev_tool_call_arr[pIdx], KeyArguments)
        cur_arguments == DictGet(current_tool_call, KeyArguments)
        new_text == ReplaceQuotes(delta_text)
        sIdx == PyIndex(tp.streamed_args_for_tool, id)
        saved == [tp EXCEPT !.prev_tool_call_arr = tool_call_arr]
        cur_arguments_json == Dumps(cur_arguments)
        at == Find(cur_arguments_json, new_text)
        arguments_delta == Slice(cur_arguments_json, 0, at + Len(new_text))
        argument_diff == extract_intermediate_diff(Dumps(cur_arguments),
                                                   Dumps(prev_arguments))
    IN  IF pIdx = 0 \/ tp.prev_tool_call_arr[pIdx].t # "o" THEN Ret(tp, NoDelta)
        ELSE IF current_tool_call.t # "o" THEN Ret(tp, NoDelta)
        ELSE IF ~Truthy(cur_arguments) THEN Ret(saved, NoDelta)
        ELSE IF ~Truthy(prev_arguments)
             THEN IF at = -1 \/ sIdx = 0 THEN Ret(saved, NoDelta)
                  ELSE Ret([saved EXCEPT !.streamed_args_for_tool[sIdx] =
                                             @ \o arguments_delta],
                           Delta("args", id, arguments_delta))
        ELSE IF sIdx = 0 THEN Ret(tp, NoDelta)
             ELSE Ret([saved EXCEPT !.streamed_args_for_tool[sIdx] =
                                        @ \o argument_diff],
                      Delta("args", id, argument_diff))

\* the arguments branch: name and initial data are sent, same tool as before
MistralArguments(tp, tool_call_arr, current_tool_call, delta_text) ==
    LET id == tp.current_tool_id
        pIdx == PyIndex(tp.prev_tool_call_arr, id)
        prev_arguments == DictGet(tp.prev_tool_call_arr[pIdx], KeyArguments)
        cur_arguments == DictGet(current_tool_call, KeyArguments)
        new_text == ReplaceQuotes(delta_text)
        sIdx == PyIndex(tp.streamed_args_for_tool, id)
        saved == [tp EXCEPT !.prev_tool_call_arr = tool_call_arr]
        cur_arguments_json == Dumps(cur_arguments)
        at == Find(cur_arguments_json, new_text)
        arguments_delta == Slice(cur_arguments_json, 0, at + Len(new_text))
        argument_diff == extract_intermediate_diff(Dumps(cur_arguments),
                                                   Dumps(prev_arguments))
    IN  IF pIdx = 0 \/ tp.prev_tool_call_arr[pIdx].t # "o" THEN Ret(tp, NoDelta)
        ELSE IF current_tool_call.t # "o" THEN Ret(tp, NoDelta)
        ELSE IF ~Truthy(cur_arguments) THEN Ret(saved, NoDelta)
        ELSE IF ~Truthy(prev_arguments)
             THEN IF at = -1 \/ sIdx = 0 THEN Ret(tp, NoDelta)
                  ELSE Ret([saved EXCEPT !.streamed_args_for_tool[sIdx] =
                                             @ \o arguments_delta],
                           Delta("args", id, arguments_delta))
        ELSE IF sIdx = 0 THEN Ret(tp, NoDelta)
             ELSE Ret([saved EXCEPT !.streamed_args_for_tool[sIdx] =
                                        @ \o argument_diff],
                      Delta("args", id, argument_diff))

\* the new-tool branch: the parsed array is longer than the cursor
MistralNewTool(tp, tool_call_arr, current_tool_call) ==
    LET id == tp.current_tool_id
        args == DictGet(current_tool_call, KeyArguments)
        sIdx == PyIndex(tp.streamed_args_for_tool, id)
        diff == RemoveAll(Dumps(args), tp.streamed_args_for_tool[sIdx])
        moved(t) == [t EXCEPT !.current_tool_id = Len(tool_call_arr) - 1,
                              !.current_tool_name_sent = FALSE,
                              !.current_tool_initial_sent = FALSE,
                              !.streamed_args_for_tool = Append(@, <<>>)]
    IN  IF id >= 0 /\ current_tool_call.t # "o" THEN Ret(tp, NoDelta)
        ELSE IF id >= 0 /\ Truthy(args)
        THEN IF sIdx = 0 THEN Ret(tp, NoDelta)
             ELSE Ret(moved([tp EXCEPT !.streamed_args_for_tool[sIdx] = @ \o diff]),
                      Delta("args", id, diff))
        ELSE Ret(moved(tp), NoDelta)

\* variant of MistralName: the name is returned and the flag is left unset
MistralNameFlagUnset(tp, tool_call_arr, current_tool_call) ==
    LET function_name == DictGet(current_tool_call, KeyName)
    IN  IF current_tool_call.t # "o" THEN Ret(tp, NoDelta)
        ELSE IF Truthy(function_name) /\ function_name.t = "s"
        THEN Ret([tp EXCEPT !.prev_tool_call_arr = tool_call_arr],
                 Delta("name", tp.current_tool_id, function_name.s))
        ELSE Ret(tp, NoDelta)

\* `elif not self.current_tool_name_sent`: the name is sent once the parse
\* holds it
MistralName(tp, tool_call_arr, current_tool_call) ==
    LET function_name == DictGet(current_tool_call, KeyName)
    IN  IF current_tool_call.t # "o" THEN Ret(tp, NoDelta)
        ELSE IF Truthy(function_name)
        THEN IF function_name.t # "s" THEN Ret(tp, NoDelta)
             ELSE Ret([tp EXCEPT !.current_tool_name_sent = TRUE,
                                 !.prev_tool_call_arr = tool_call_arr],
                      Delta("name", tp.current_tool_id, function_name.s))
        ELSE Ret([tp EXCEPT !.prev_tool_call_arr = tool_call_arr], NoDelta)

MistralStreaming(tp, current_text, delta_text, current_token_ids, delta_token_ids) ==
    LET pieces == Split(current_text, bot_token)
        parsable_arr == ReplaceQuotes(pieces[2])
        parsed == PartialLoads(parsable_arr, tp.current_tool_name_sent)
        arr == Items(parsed.v)
        n == Len(arr)
        cIdx == PyIndex(arr, tp.current_tool_id)
        current_tool_call == arr[cIdx]
    IN  IF ~InSeq(bot_token_id, current_token_ids)
        THEN Ret(tp, Delta("content", 0, delta_text))
        ELSE IF InSeq(bot_token_id, delta_token_ids) /\ Len(delta_token_ids) = 1
        THEN Ret(tp, NoDelta)
        \* everything below runs inside try ... except Exception: return None
        ELSE IF Len(pieces) < 2 THEN Ret(tp, NoDelta)
        ELSE IF ~parsed.ok \/ parsed.v.t = "o" THEN Ret(tp, NoDelta)
        ELSE IF cIdx = 0 THEN Ret(tp, NoDelta)
        ELSE IF n > 0 /\ n > tp.current_tool_id + 1
        THEN MistralNewTool(tp, arr, current_tool_call)
        ELSE IF ~(n - 1 = tp.current_tool_id /\ tp.current_tool_id >= 0)
        THEN Ret(tp, NoDelta)
        ELSE IF ~tp.current_tool_initial_sent
        THEN Ret([tp EXCEPT !.current_tool_initial_sent = TRUE,
                            !.prev_tool_call_arr = arr],
                 Delta("initial", tp.current_tool_id, <<>>))
        ELSE IF ~tp.current_tool_name_sent
        THEN MistralName(tp, arr, current_tool_call)
        ELSE MistralArguments(tp, arr, current_tool_call, delta_text)

(***************************************************************************)
(* MistralToolParser.extract_tool_calls: the result is                     *)
(* [tools_called, tool_calls, hasContent, content]; a tool call is         *)
(* [name, arguments] with arguments the json.dumps string.                 *)
(***************************************************************************)
\* variant of Extracted: an empty content is kept as '' instead of None
ExtractedEmptyContent(called, calls, hasContent, content) ==
    [tools_called |-> called, tool_calls |-> calls,
     hasContent |-> TRUE, content |-> content]

Extracted(called, calls, hasContent, content) ==
    [tools_called |-> called, tool_calls |-> calls,
     hasContent |-> hasContent, content |-> content]

\* variant of CallOk: a missing 'arguments' is read with dict.get
CallOkWithoutArguments(raw) ==
    /\ raw.t = "o"
    /\ HasKey(raw, KeyName)
    /\ DictGet(raw, KeyName).t = "s"

\* ToolCall(function=FunctionCall(name=raw['name'], arguments=dumps(raw['arguments'])))
\* can be built: raw is a dict with both keys and a str name
CallOk(raw) ==
    /\ raw.t = "o"
    /\ HasKey(raw, KeyName)
    /\ HasKey(raw, KeyArguments)
    /\ DictGet(raw, KeyName).t = "s"

ToolCallOf(raw) ==
    [name |-> DictGet(raw, KeyName).s,
     arguments |-> Dumps(DictGet(raw, KeyArguments))]

MistralExtract(model_output) ==
    LET cleaned == ReplaceQuotes(RemoveAll(model_output, bot_token))
        \* tool_call_regex.findall(cleaned)[0] for r'\[{.*?}\]' with DOTALL
        a == Find(cleaned, <<"[", "{">>)
        b == FindFrom(cleaned, <<"}", "]">>, a + 2)
        raw_tool_call == Slice(cleaned, a, b + 2)
        loaded == JsonLoads(raw_tool_call)
        function_call_arr == Items(loaded.v)
        content == Split(model_output, bot_token)[1]
        fallback == Extracted(FALSE, <<>>, TRUE, model_output)
    IN  IF ~Contains(model_output, bot_token) THEN fallback
        ELSE IF a = -1 \/ b = -1 THEN fallback
        ELSE IF ~loaded.ok \/ loaded.v.t # "a" THEN fallback
        ELSE IF \E k \in 1..Len(function_call_arr) : ~CallOk(function_call_arr[k])
        THEN fallback
        ELSE Extracted(TRUE,
                       [k \in 1..Len(function_call_arr) |->
                            ToolCallOf(function_call_arr[k])],
                       Len(content) > 0, content)

(***************************************************************************)
(* Hermes2ProToolParser                                                    *)
(***************************************************************************)
tool_call_start_token == <<"<","t","o","o","l","_","c","a","l","l",">">>
tool_call_end_token == <<"<","/","t","o","o","l","_","c","a","l","l",">">>
tool_call_start_token_id == 6
tool_call_end_token_id == 7

\* list.count(x)
Count(x, seq) == Cardinality({k \in 1..Len(seq) : seq[k] = x})

\* the arguments branch; current is the parsed call, isNone when it is None
HermesArguments(tp, current_tool_call, isNone, delta_text) ==
    LET id == tp.current_tool_id
        grown == IF Len(tp.prev_tool_call_arr) <= id
                 THEN [tp EXCEPT !.prev_tool_call_arr = Append(@, EmptyDict)]
                 ELSE tp
        pIdx == PyIndex(grown.prev_tool_call_arr, id)
        prev_arguments == DictGet(grown.prev_tool_call_arr[pIdx], KeyArguments)
        cur_arguments == DictGet(current_tool_call, KeyArguments)
        sIdx == PyIndex(grown.streamed_args_for_tool, id)
        save(t) == IF id = Len(t.prev_tool_call_arr) - 1
                   THEN [t EXCEPT !.prev_tool_call_arr[pIdx] = current_tool_call]
                   ELSE [t EXCEPT !.prev_tool_call_arr = Append(@, current_tool_call)]
        cur_arguments_json == Dumps(cur_arguments)
        at == Find(cur_arguments_json, delta_text)
        arguments_delta == Slice(cur_arguments_json, 0, at + Len(delta_text))
        argument_diff == extract_intermediate_diff(Dumps(cur_arguments),
                                                   Dumps(prev_arguments))
    IN  IF pIdx = 0 \/ grown.prev_tool_call_arr[pIdx].t # "o" THEN Ret(grown, NoDelta)
        ELSE IF isNone \/ current_tool_call.t # "o" THEN Ret(grown, NoDelta)
        ELSE IF ~Truthy(cur_arguments) THEN Ret(save(grown), NoDelta)
        ELSE IF ~Truthy(prev_arguments)
             THEN IF at = -1 \/ sIdx = 0 THEN Ret(grown, NoDelta)
                  ELSE Ret(save([grown EXCEPT !.streamed_args_for_tool[sIdx] =
                                                  @ \o arguments_delta]),
                           Delta("args", id, arguments_delta))
        ELSE IF sIdx = 0 THEN Ret(grown, NoDelta)
             ELSE Ret(save([grown EXCEPT !.streamed_args_for_tool[sIdx] =
                                             @ \o argument_diff]),
                      Delta("args", id, argument_diff))

\* the branch taken when the current tool call is being closed
HermesClosing(tp) ==
    LET id == tp.current_tool_id
        pIdx == PyIndex(tp.prev_tool_call_arr, id)
        diff == DictGet(tp.prev_tool_call_arr[pIdx], KeyArguments)
        sIdx == PyIndex(tp.streamed_args_for_tool, id)
    IN  IF pIdx = 0 \/ tp.prev_tool_call_arr[pIdx].t # "o" THEN Ret(tp, NoDelta)
        ELSE IF Truthy(diff)
        THEN IF sIdx = 0 THEN Ret(tp, NoDelta)
             ELSE Ret(tp, Delta("args", id,
                                RemoveAll(Dumps(diff), tp.streamed_args_for_tool[sIdx])))
        \* falls through to the use of tool_call_portion, which is unbound
        ELSE Ret(tp, NoDelta)

HermesStreaming(tp, current_text, delta_text, previous_token_ids, current_token_ids, delta_token_ids) ==
    LET prev_tool_start_count == Count(tool_call_start_token_id, previous_token_ids)
        prev_tool_end_count == Count(tool_call_end_token_id, previous_token_ids)
        cur_tool_start_count == Count(tool_call_start_token_id, current_token_ids)
        cur_tool_end_count == Count(tool_call_end_token_id, current_token_ids)
        flags == tp.current_tool_name_sent
        newTool == /\ cur_tool_start_count > cur_tool_end_count
                   /\ cur_tool_start_count > prev_tool_start_count
        existing == /\ cur_tool_start_count > cur_tool_end_count
                    /\ cur_tool_start_count = prev_tool_start_count
        closing == /\ cur_tool_start_count = cur_tool_end_count
                   /\ cur_tool_end_count > prev_tool_end_count
        pieces == Split(current_text, tool_call_start_token)
        tool_call_portion == pieces[Len(pieces)]
        portionNone == newTool /\ ~(Len(delta_token_ids) > 1)
        tp1 == IF newTool
               THEN [tp EXCEPT !.current_tool_id = @ + 1,
                               !.current_tool_name_sent = FALSE,
                               !.current_tool_initial_sent = FALSE,
                               !.streamed_args_for_tool = Append(@, <<>>)]
               ELSE tp
        callNone == portionNone \/ tool_call_portion = <<>>
        parsed == PartialLoads(tool_call_portion, flags)
        current_tool_call == parsed.v
        function_name == DictGet(current_tool_call, KeyName)
    IN  IF ~InSeq(tool_call_start_token_id, current_token_ids)
        THEN Ret(tp, Delta("content", 0, delta_text))
        \* everything below runs inside try ... except Exception: return None
        ELSE IF /\ cur_tool_start_count = cur_tool_end_count
                /\ prev_tool_end_count = cur_tool_end_count
        THEN Ret(tp, Delta("content", 0, delta_text))
        ELSE IF closing /\ ~newTool /\ ~existing THEN HermesClosing(tp)
        ELSE IF ~newTool /\ ~existing THEN Ret(tp, NoDelta)
        ELSE IF ~callNone /\ ~parsed.ok THEN Ret(tp1, NoDelta)
        ELSE IF ~tp1.current_tool_initial_sent
        THEN Ret([tp1 EXCEPT !.current_tool_initial_sent = TRUE],
                 Delta("initial", tp1.current_tool_id, <<>>))
        ELSE IF ~tp1.current_tool_name_sent
        THEN IF callNone \/ current_tool_call.t # "o" THEN Ret(tp1, NoDelta)
             ELSE IF Truthy(function_name)
             THEN IF function_name.t # "s"
                  THEN Ret([tp1 EXCEPT !.current_tool_name_sent = TRUE], NoDelta)
                  ELSE Ret([tp1 EXCEPT !.current_tool_name_sent = TRUE],
                           Delta("name", tp1.current_tool_id, function_name.s))
             ELSE Ret(tp1, NoDelta)
        ELSE IF portionNone THEN Ret(tp1, NoDelta)
        ELSE HermesArguments(tp1, current_tool_call, callNone, delta_text)

\* tool_call_regex.findall(text) for
\* r'<tool_call>(.*?)</tool_call>|<tool_call>(.*)' with DOTALL, from 0-based
\* position from on: each match reduced to `match[0] if match[0] else match[1]`
RECURSIVE HermesMatches(_, _)
HermesMatches(text, from) ==
    LET a == FindFrom(text, tool_call_start_token, from)
        inner == a + Len(tool_call_start_token)
        b == FindFrom(text, tool_call_end_token, inner)
    IN  IF a = -1 THEN <<>>
        ELSE IF b = -1 THEN <<Slice(text, inner, Len(text))>>
        ELSE <<Slice(text, inner, b)>>
             \o HermesMatches(text, b + Len(tool_call_end_token))

HermesExtract(model_output) ==
    LET matches == HermesMatches(model_output, 0)
        loaded == [k \in 1..Len(matches) |-> JsonLoads(matches[k])]
        content == Slice(model_output, 0, Find(model_output, tool_call_start_token))
        fallback == Extracted(FALSE, <<>>, TRUE, model_output)
    IN  IF ~Contains(model_output, tool_call_start_token) THEN fallback
        ELSE IF \E k \in 1..Len(matches) : ~loaded[k].ok \/ ~CallOk(loaded[k].v)
        THEN fallback
        ELSE Extracted(TRUE,
                       [k \in 1..Len(matches) |-> ToolCallOf(loaded[k].v)],
                       Len(content) > 0, content)

(***************************************************************************)
(* The engine.  A model output is a script: the sequence of tokens         *)
(* [id, text] the engine generates for one choice.  A RequestOutput gives, *)
(* for every choice, the tokens generated so far and the finish reason.    *)
(***************************************************************************)
\* plain text, no marker
PlainScript ==
    <<[id |-> 1, text |-> <<"H","e","l">>],
      [id |-> 1, text |-> <<"l","o">>]>>

\* Hi[TOOL_CALLS][{'name': 'f', 'arguments': {'k': 'ab'}}]
MistralOne ==
    <<[id |-> 1, text |-> <<"H","i">>],
      [id |-> 5, text |-> <<"[","T","O","O","L","_","C","A","L","L","S","]">>],
      [id |-> 1, text |-> <<"[","{","'","n","a","m","e","'",":"," ","'">>],
      [id |-> 1, text |-> <<"f">>],
      [id |-> 1, text |-> <<"'",","," ","'","a","r","g","u","m","e","n","t","s","'",":"," ","{","'","k","'",":"," ","'">>],
      [id |-> 1, text |-> <<"a">>],
      [id |-> 1, text |-> <<"b">>],
      [id |-> 1, text |-> <<"'","}","}","]">>]>>

\* [TOOL_CALLS][{'name': 'f', 'arguments': {'k': 'x'}}], the opening quote of
\* the value a token of its own
MistralQuote ==
    <<[id |-> 5, text |-> <<"[","T","O","O","L","_","C","A","L","L","S","]">>],
      [id |-> 1, text |-> <<"[","{","'","n","a","m","e","'",":"," ","'","f","'">>],
      [id |-> 1, text |-> <<","," ","'","a","r","g","u","m","e","n","t","s","'">>],
      [id |-> 1, text |-> <<":"," ","{","'","k","'",":"," ">>],
      [id |-> 1, text |-> <<"'">>],
      [id |-> 1, text |-> <<"x">>],
      [id |-> 1, text |-> <<"'","}","}","]">>]>>

\* [TOOL_CALLS][{'name': 'f', 'arguments': {'k': 'a'}}, {'name': 'g', 'arguments': {'m': 'b'}}]
MistralTwo ==
    <<[id |-> 5, text |-> <<"[","T","O","O","L","_","C","A","L","L","S","]">>],
      [id |-> 1, text |-> <<"[","{","'","n","a","m","e","'",":"," ","'","f","'",","," ","'","a","r","g","u","m","e","n","t","s","'",":"," ","{","'","k","'",":"," ","'","a","'","}","}">>],
      [id |-> 1, text |-> <<","," ","{","'","n","a","m","e","'",":"," ","'","g","'">>],
      [id |-> 1, text |-> <<","," ","'","a","r","g","u","m","e","n","t","s","'",":"," ","{","'","m","'",":"," ","'">>],
      [id |-> 1, text |-> <<"b">>],
      [id |-> 1, text |-> <<"'","}","}","]">>]>>

\* Ok<tool_call>{"name": "f", "arguments": {"k": "ab"}}</tool_call>
HermesOne ==
    <<[id |-> 1, text |-> <<"O","k">>],
      [id |-> 6, text |-> <<"<","t","o","o","l","_","c","a","l","l",">">>],
      [id |-> 1, text |-> <<"{","\"","n","a","m","e","\"",":"," ","\"">>],
      [id |-> 1, text |-> <<"f">>],
      [id |-> 1, text |-> <<"\"",","," ","\"","a","r","g","u","m","e","n","t","s","\"",":"," ","{","\"","k","\"",":"," ","\"">>],
      [id |-> 1, text |-> <<"a">>],
      [id |-> 1, text |-> <<"b">>],
      [id |-> 1, text |-> <<"\"","}","}">>],
      [id |-> 7, text |-> <<"<","/","t","o","o","l","_","c","a","l","l",">">>]>>

\* <tool_call>{"name": "f", "arguments": {}}</tool_call><tool_call>{"name": "g", "arguments": {"m": "b"}}</tool_call>
HermesTwo ==
    <<[id |-> 6, text |-> <<"<","t","o","o","l","_","c","a","l","l",">">>],
      [id |-> 1, text |-> <<"{","\"","n","a","m","e","\"",":"," ","\"","f","\"",","," ","\"","a","r","g","u","m","e","n","t","s","\"",":"," ","{","}","}">>],
      [id |-> 7, text |-> <<"<","/","t","o","o","l","_","c","a","l","l",">">>],
      [id |-> 6, text |-> <<"<","t","o","o","l","_","c","a","l","l",">">>],
      [id |-> 1, text |-> <<"{","\"","n","a","m","e","\"",":"," ","\"","g","\"",","," ","\"","a","r","g","u","m","e","n","t","s","\"",":"," ","{","\"","m","\"",":"," ","\"">>],
      [id |-> 1, text |-> <<"b">>],
      [id |-> 1, text |-> <<"\"","}","}">>],
      [id |-> 7, text |-> <<"<","/","t","o","o","l","_","c","a","l","l",">">>]>>


\* [TOOL_CALLS][{'name': 'f', 'arguments': {'k': 'v'}}], the call one token
MistralTiny ==
    <<[id |-> 5, text |-> <<"[","T","O","O","L","_","C","A","L","L","S","]">>],
      [id |-> 1, text |-> <<"[","{","'","n","a","m","e","'",":"," ","'","f","'",","," ","'","a","r","g","u","m","e","n","t","s","'",":"," ","{","'","k","'",":"," ","'","v","'","}","}","]">>]>>

\* [TOOL_CALLS][{'name': 'f', 'arguments': {'k': 'a'}}], the value's closing quote a
\* token of its own
MistralClose ==
    <<[id |-> 5, text |-> <<"[","T","O","O","L","_","C","A","L","L","S","]">>],
      [id |-> 1, text |-> <<"[","{","'","n","a","m","e","'",":"," ","'","f","'">>],
      [id |-> 1, text |-> <<","," ","'","a","r","g","u","m","e","n","t","s","'">>],
      [id |-> 1, text |-> <<":"," ","{","'","k","'",":"," ">>],
      [id |-> 1, text |-> <<"'","a">>],
      [id |-> 1, text |-> <<"'">>],
      [id |-> 1, text |-> <<"}","}","]">>]>>

\* Okay. <tool_call>{"name": "f", "arguments": {}}</tool_call>
HermesEmpty ==
    <<[id |-> 1, text |-> <<"O","k","a","y","."," ">>],
      [id |-> 6, text |-> <<"<","t","o","o","l","_","c","a","l","l",">">>],
      [id |-> 1, text |-> <<"{","\"","n","a","m","e","\"",":"," ","\"","f","\"">>],
      [id |-> 1, text |-> <<","," ","\"","a","r","g","u","m","e","n","t","s","\"",":"," ","{","}">>],
      [id |-> 1, text |-> <<"}">>],
      [id |-> 7, text |-> <<"<","/","t","o","o","l","_","c","a","l","l",">">>]>>

\* [TOOL_CALLS][{'name': 'f', 'arguments': {'k': 'v'}}}], one closing brace too many
MistralBroken ==
    <<[id |-> 5, text |-> <<"[","T","O","O","L","_","C","A","L","L","S","]">>],
      [id |-> 1, text |-> <<"[","{","'","n","a","m","e","'",":"," ","'","f","'",","," ","'","a","r","g","u","m","e","n","t","s","'",":"," ","{","'","k","'",":"," ","'">>],
      [id |-> 1, text |-> <<"v","'","}">>],
      [id |-> 1, text |-> <<"}","}","]">>]>>

\* [TOOL_CALLS][{'name': 'f', 'arguments': {'k': 'v'}}], the call cut inside
\* the value
MistralShort ==
    <<[id |-> 5, text |-> <<"[","T","O","O","L","_","C","A","L","L","S","]">>],
      [id |-> 1, text |-> <<"[","{","'","n","a","m","e","'",":"," ","'","f","'",","," ","'","a","r","g","u","m","e","n","t","s","'",":"," ","{","'","k","'",":"," ","'">>],
      [id |-> 1, text |-> <<"v","'","}","}","]">>]>>

Scripts == <<PlainScript, MistralOne, MistralQuote, MistralTwo, MistralTiny,
      MistralClose, MistralShort, MistralBroken, HermesOne,
      HermesTwo, HermesEmpty>>

RECURSIVE TextOf(_, _)
\* output.text after k tokens of the script
TextOf(sc, k) == IF k = 0 THEN <<>> ELSE TextOf(sc, k - 1) \o sc[k].text

\* output.token_ids after k tokens of the script
IdsOf(sc, k) == [j \in 1..k |-> sc[j].id]

\* the most tokens one engine step adds to a choice
MaxStep == 2
\* the most engine steps that add no token to any choice
MaxIdle == 1

(***************************************************************************)
(* Requests: n choices, the server's tool parser ("none": auto tools not   *)
(* enabled), the request's tool_choice ("auto", "named", "none"), whether  *)
(* tools are declared, stream_options ("off", "final": include_usage,      *)
(* "continuous": include_usage with continuous_usage_stats), and the       *)
(* script the model follows for each choice.                               *)
(***************************************************************************)
Req(n, parser, tool_choice, tools, usage, scripts) ==
    [n |-> n, parser |-> parser, tool_choice |-> tool_choice, tools |-> tools,
     usage |-> usage, scripts |-> scripts]

Requests ==
    {Req(1, "mistral", "auto", TRUE, "off", <<MistralOne>>),
     Req(1, "mistral", "auto", TRUE, "off", <<MistralQuote>>),
     Req(1, "mistral", "auto", TRUE, "final", <<MistralTwo>>),
     Req(1, "mistral", "auto", TRUE, "off", <<MistralClose>>),
     Req(1, "mistral", "auto", TRUE, "off", <<MistralBroken>>),
     Req(1, "hermes", "auto", TRUE, "off", <<HermesOne>>),
     Req(1, "hermes", "auto", TRUE, "off", <<HermesEmpty>>),
     Req(1, "hermes", "auto", TRUE, "continuous", <<HermesTwo>>),
     Req(2, "mistral", "auto", TRUE, "off", <<MistralTiny, MistralTiny>>),
     Req(2, "mistral", "auto", TRUE, "off", <<MistralTiny, PlainScript>>),
     Req(1, "none", "none", FALSE, "final", <<PlainScript>>),
     Req(1, "mistral", "named", TRUE, "off", <<PlainScript>>)}

(***************************************************************************)
(* chat_completion_stream_generator                                        *)
(***************************************************************************)
VARIABLES
    req,                 \* the request and the model outputs it will get
    pc,                  \* "loop": in the async for; "done": [DONE] sent;
                         \* "raised": an exception left the generator
    genLen,              \* engine: tokens generated so far, per choice
    genFinish,           \* engine: finish reason per choice, "" when None
    idle,                \* engine steps so far that added no token
    first_iteration,
    previous_texts,
    previous_num_tokens,
    finish_reason_sent,
    prompt_tokens_bound, \* the local prompt_tokens has been assigned
    tool_parser,         \* the ToolParser instance of the request
    wire,                \* the chunks yielded so far
    parser_log,          \* history: [choice, d] for every delta that
                         \* tool_parser returned
    solo_parser,         \* reference: a ToolParser of its own per choice,
                         \* fed the same steps of that choice
    solo_log,            \* reference: the deltas solo_parser[k] returned
    disconnected,        \* the client of the request has gone away
    aborts,              \* calls of engine.abort(request_id) made so far
    heap,                \* concurrent requests: the ToolParser objects made
    tasks,               \* concurrent requests: one record per running
                         \* chat_completion_stream_generator
    cc,                  \* create_chat_completion: the call in progress
    fncall               \* a call of one of the module's functions on its
                         \* own: the arguments and, once made, the result

vars == <<req, pc, genLen, genFinish, idle, first_iteration, previous_texts,
          previous_num_tokens, finish_reason_sent, prompt_tokens_bound,
          tool_parser, wire, parser_log, solo_parser, solo_log,
          disconnected, aborts, heap, tasks, cc, fncall>>

\* what one streaming request does not touch
twoVars == <<heap, tasks>>
ccVars == <<cc>>
fnVars == <<fncall>>

\* a yielded "data: ..." line: a choice chunk, the usage chunk, an error
\* chunk or the [DONE] sentinel
Chunk(type, index, delta, finish_reason, usage) ==
    [type |-> type, index |-> index, delta |-> delta,
     finish_reason |-> finish_reason, usage |-> usage]
ChoiceChunk(r, index, delta, finish_reason) ==
    Chunk("choice", index, delta, finish_reason, r.usage = "continuous")
UsageChunk == Chunk("usage", -1, NoDelta, "", TRUE)
ErrorChunk == Chunk("error", -1, NoDelta, "", FALSE)
DoneChunk == Chunk("done", -1, NoDelta, "", FALSE)

\* the parser is consulted: tools declared, parser configured, tool_choice
\* None or 'auto', auto tools enabled
UsesParser(r) == r.tools /\ r.parser # "none" /\ r.tool_choice \in {"auto", "none"}

\* the arguments the driver passes to extract_tool_calls_streaming for a
\* choice with script sc that had before_text / before_num at the last step
\* and has k tokens now
ParserInputs(sc, before_text, before_num, k) ==
    LET token_ids == IdsOf(sc, k)
        text == TextOf(sc, k)
        delta_token_ids == Slice(token_ids, Min(before_num, k), k)
    IN  [previous_text |-> before_text,
         current_text |-> text,
         delta_text |-> Slice(text, Min(Len(before_text), Len(text)), Len(text)),
         \* output.token_ids[:-1 * len(delta_token_ids)]
         previous_token_ids |->
            IF Len(delta_token_ids) = 0 THEN <<>>
            ELSE Slice(token_ids, 0, k - Len(delta_token_ids)),
         current_token_ids |-> token_ids,
         delta_token_ids |-> delta_token_ids]

\* the call of the configured parser on the arguments in
CallWith(r, tp, in) ==
    IF r.parser = "mistral"
    THEN MistralStreaming(tp, in.current_text, in.delta_text,
                          in.current_token_ids, in.delta_token_ids)
    ELSE HermesStreaming(tp, in.current_text, in.delta_text, in.previous_token_ids,
                         in.current_token_ids, in.delta_token_ids)

\* tool_parser.extract_tool_calls_streaming(...) as the driver calls it for a
\* choice with script sc that had before_text / before_num at the last step
\* and has k tokens now
CallParser(r, tp, sc, before_text, before_num, k) ==
    CallWith(r, tp, ParserInputs(sc, before_text, before_num, k))

\* variant of Skip: a choice is handled again after its terminal chunk
SkipNever(st, i) == FALSE

\* `if finish_reason_sent[i]: continue`
Skip(st, i) == st.finish_reason_sent[i + 1]

\* the terminal chunk's check for arguments the partial parse held back
HeldBack(r, delta_message, finish_reason) ==
    /\ delta_message.kind \in {"args", "call"}
    /\ \/ delta_message.text = <<>>
       \/ finish_reason \in {"stop", "tool_calls"}
    /\ r.parser # "none"

\* building the remainder raises (IndexError, AttributeError)
RemainderRaises(tp) ==
    LET last == Len(tp.prev_tool_call_arr) - 1
        lIdx == PyIndex(tp.prev_tool_call_arr, last)
    IN  \/ lIdx = 0
        \/ tp.prev_tool_call_arr[lIdx].t # "o"
        \/ PyIndex(tp.streamed_args_for_tool, last) = 0

\* the delta that replaces the step's delta in the terminal chunk
Remainder(tp) ==
    LET last == Len(tp.prev_tool_call_arr) - 1
        call == tp.prev_tool_call_arr[PyIndex(tp.prev_tool_call_arr, last)]
        expected_call == Dumps(IF HasKey(call, KeyArguments)
                               THEN DictGet(call, KeyArguments) ELSE EmptyDict)
        actual_call == tp.streamed_args_for_tool[PyIndex(tp.streamed_args_for_tool, last)]
        remaining_call == RemoveFirst(expected_call, actual_call)
    IN  Delta("args", last, remaining_call)

\* finish_reason of the terminal chunk
ReportedFinish(r, tp, finish_reason) ==
    IF r.parser # "none" /\ Len(tp.prev_tool_call_arr) > 0
    THEN "tool_calls" ELSE finish_reason

\* output.text[len(previous_texts[i]):]
DeltaText(r, st, len, i) ==
    LET text == TextOf(r.scripts[i + 1], len[i + 1])
    IN  Slice(text, Min(Len(st.previous_texts[i + 1]), Len(text)), Len(text))

\* the parser the driver holds and the delta_message of this output: the
\* named tool call, what the parser returns, or plain content
Returned(r, st, len, i) ==
    IF r.tool_choice = "named"
    THEN Ret(st.tool_parser, Delta("call", 0, DeltaText(r, st, len, i)))
    ELSE IF UsesParser(r)
    THEN CallParser(r, st.tool_parser, r.scripts[i + 1], st.previous_texts[i + 1],
                    st.previous_num_tokens[i + 1], len[i + 1])
    ELSE Ret(st.tool_parser, Delta("content", 0, DeltaText(r, st, len, i)))

\* the same call made on a parser that serves choice i alone
ReturnedAlone(r, st, len, i) ==
    IF r.tool_choice # "named" /\ UsesParser(r)
    THEN CallParser(r, st.solo_parser[i + 1], r.scripts[i + 1], st.previous_texts[i + 1],
                    st.previous_num_tokens[i + 1], len[i + 1])
    ELSE Ret(st.solo_parser[i + 1], NoDelta)

\* the locals after delta_message is set and the previous text and token
\* count are updated
Updated(r, st, len, i, ret, solo) ==
    [st EXCEPT
       !.delta_message = ret.d,
       !.tool_parser = ret.tp,
       !.previous_texts[i + 1] = TextOf(r.scripts[i + 1], len[i + 1]),
       !.previous_num_tokens[i + 1] = len[i + 1],
       !.parser_log = IF r.tool_choice # "named" /\ UsesParser(r) /\ ret.d.kind # "none"
                      THEN Append(@, [choice |-> i, d |-> ret.d]) ELSE @,
       !.solo_parser[i + 1] = solo.tp,
       !.solo_log[i + 1] = IF solo.d.kind # "none" THEN Append(@, solo.d) ELSE @]

\* from `if delta_message is None: continue` to the end of the loop body
Emit(r, st, finish_reason, i) ==
    IF st.delta_message.kind = "none" THEN st
    ELSE IF finish_reason = ""
    THEN [st EXCEPT !.wire = Append(@, ChoiceChunk(r, i, st.delta_message, "")),
                    !.prompt_tokens_bound = @ \/ r.usage = "continuous"]
    ELSE IF HeldBack(r, st.delta_message, finish_reason) /\ RemainderRaises(st.tool_parser)
    THEN [st EXCEPT !.raised = TRUE]
    ELSE [st EXCEPT
            !.wire = Append(@, ChoiceChunk(r, i,
                                IF HeldBack(r, st.delta_message, finish_reason)
                                THEN Remainder(st.tool_parser) ELSE st.delta_message,
                                ReportedFinish(r, st.tool_parser, finish_reason))),
            !.prompt_tokens_bound = TRUE,
            !.finish_reason_sent[i + 1] = TRUE]

\* the body of `for output in res.outputs` for the output of choice i
\* (0-based); st holds the generator's locals, len and fin are the engine's
\* token count and finish reason of every choice in this RequestOutput
ProcessOutput(r, st, len, fin, i) ==
    IF Skip(st, i) THEN st
    ELSE Emit(r, Updated(r, st, len, i, Returned(r, st, len, i),
                         ReturnedAlone(r, st, len, i)),
              fin[i + 1], i)

RECURSIVE ProcessOutputs(_, _, _, _, _)
\* `for output in res.outputs`, from the output of choice i on
ProcessOutputs(r, st, len, fin, i) ==
    IF i >= r.n \/ st.raised THEN st
    ELSE ProcessOutputs(r, ProcessOutput(r, st, len, fin, i), len, fin, i + 1)

\* variant of RoleChunks: the role is sent for the first choice only
RoleChunksFirstOnly(r) == <<ChoiceChunk(r, 0, Delta("role", 0, <<>>), "")>>

\* the role chunks of the first iteration, one per choice
RoleChunks(r) == [k \in 1..r.n |-> ChoiceChunk(r, k - 1, Delta("role", 0, <<>>), "")]

Locals ==
    [previous_texts |-> previous_texts,
     previous_num_tokens |-> previous_num_tokens,
     finish_reason_sent |-> finish_reason_sent,
     prompt_tokens_bound |-> prompt_tokens_bound,
     tool_parser |-> tool_parser,
     wire |-> wire,
     delta_message |-> NoDelta,
     raised |-> FALSE,
     parser_log |-> parser_log,
     solo_parser |-> solo_parser,
     solo_log |-> solo_log]

Init ==
    /\ req \in Requests
    /\ pc = "loop"
    /\ genLen = [k \in 1..req.n |-> 0]
    /\ genFinish = [k \in 1..req.n |-> ""]
    /\ idle = 0
    /\ first_iteration = TRUE
    /\ previous_texts = [k \in 1..req.n |-> <<>>]
    /\ previous_num_tokens = [k \in 1..req.n |-> 0]
    /\ finish_reason_sent = [k \in 1..req.n |-> FALSE]
    /\ prompt_tokens_bound = FALSE
    /\ tool_parser = NewParser
    /\ wire = <<>>
    /\ parser_log = <<>>
    /\ solo_parser = [k \in 1..req.n |-> NewParser]
    /\ solo_log = [k \in 1..req.n |-> <<>>]
    /\ disconnected = FALSE
    /\ aborts = 0
    /\ heap = <<>>
    /\ tasks = <<>>
    /\ cc = <<>>
    /\ fncall = <<>>

\* the engine's next RequestOutput: every unfinished choice gains adv[k]
\* tokens; a choice that reaches the end of its script finishes with "stop",
\* a choice in stops finishes early with "length"
EngineOutput(adv, stops) ==
    /\ \A k \in 1..req.n :
          /\ genFinish[k] # "" => adv[k] = 0 /\ k \notin stops
          /\ genLen[k] + adv[k] <= Len(req.scripts[k])
          /\ k \in stops => adv[k] > 0 /\ genLen[k] + adv[k] < Len(req.scripts[k])
    /\ genLen' = [k \in 1..req.n |-> genLen[k] + adv[k]]
    /\ genFinish' = [k \in 1..req.n |->
                        IF genFinish[k] # "" THEN genFinish[k]
                        ELSE IF adv[k] > 0 /\ genLen[k] + adv[k] = Len(req.scripts[k])
                        THEN "stop"
                        ELSE IF k \in stops THEN "length"
                        ELSE ""]
    /\ IF \A k \in 1..req.n : adv[k] = 0
       THEN idle < MaxIdle /\ idle' = idle + 1
       ELSE idle' = idle

\* the locals when the loop body starts: the first iteration has sent the
\* role chunks
Started ==
    IF first_iteration
    THEN [Locals EXCEPT !.wire = @ \o RoleChunks(req),
                        !.prompt_tokens_bound = req.usage = "continuous"]
    ELSE Locals

\* the generator's locals become st
Commit(st) ==
    /\ first_iteration' = FALSE
    /\ previous_texts' = st.previous_texts
    /\ previous_num_tokens' = st.previous_num_tokens
    /\ finish_reason_sent' = st.finish_reason_sent
    /\ prompt_tokens_bound' = st.prompt_tokens_bound
    /\ tool_parser' = st.tool_parser
    /\ wire' = st.wire
    /\ parser_log' = st.parser_log
    /\ solo_parser' = st.solo_parser
    /\ solo_log' = st.solo_log
    /\ pc' = IF st.raised THEN "raised" ELSE "loop"

\* one iteration of `async for res in result_generator`
Step(adv, stops) ==
    /\ pc = "loop"
    /\ \E k \in 1..req.n : genFinish[k] = ""
    /\ EngineOutput(adv, stops)
    /\ Commit(ProcessOutputs(req, Started, genLen', genFinish', 0))
    /\ UNCHANGED <<req, disconnected, aborts, twoVars, ccVars, fnVars>>

\* the iterator is exhausted: the final usage chunk if asked for, then [DONE]
EndOfStream ==
    /\ pc = "loop"
    /\ \A k \in 1..req.n : genFinish[k] # ""
    /\ IF req.usage = "off"
       THEN /\ wire' = Append(wire, DoneChunk)
            /\ pc' = "done"
       ELSE IF prompt_tokens_bound
       THEN /\ wire' = wire \o <<UsageChunk, DoneChunk>>
            /\ pc' = "done"
       \* prompt_tokens is read before assignment: UnboundLocalError
       ELSE /\ wire' = wire
            /\ pc' = "raised"
    /\ UNCHANGED <<req, genLen, genFinish, idle, first_iteration, previous_texts,
                   previous_num_tokens, finish_reason_sent, prompt_tokens_bound,
                   tool_parser, parser_log, solo_parser, solo_log,
                   disconnected, aborts, twoVars, ccVars, fnVars>>

\* result_generator raises ValueError: one error chunk, then [DONE]
EngineValueError ==
    /\ pc = "loop"
    /\ \E k \in 1..req.n : genFinish[k] = ""
    /\ wire' = wire \o <<ErrorChunk, DoneChunk>>
    /\ pc' = "done"
    /\ UNCHANGED <<req, genLen, genFinish, idle, first_iteration, previous_texts,
                   previous_num_tokens, finish_reason_sent, prompt_tokens_bound,
                   tool_parser, parser_log, solo_parser, solo_log,
                   disconnected, aborts, twoVars, ccVars, fnVars>>

\* result_generator raises an exception that is not a ValueError: no
\* except clause of the generator matches it
EngineOtherError ==
    /\ pc = "loop"
    /\ \E k \in 1..req.n : genFinish[k] = ""
    /\ pc' = "raised"
    /\ UNCHANGED <<req, genLen, genFinish, idle, first_iteration, previous_texts,
                   previous_num_tokens, finish_reason_sent, prompt_tokens_bound,
                   tool_parser, wire, parser_log, solo_parser, solo_log,
                   disconnected, aborts, twoVars, ccVars, fnVars>>

\* `self.tool_parser(tokenizer)` raises: Hermes2ProToolParser.__init__ finds
\* no tokenizer or no <tool_call> tokens in its vocabulary; the call is made
\* before the generator's try block
ParserConstructionError ==
    /\ pc = "loop"
    /\ first_iteration /\ idle = 0 /\ ~disconnected
    /\ req.parser = "hermes"
    /\ pc' = "raised"
    /\ UNCHANGED <<req, genLen, genFinish, idle, first_iteration, previous_texts,
                   previous_num_tokens, finish_reason_sent, prompt_tokens_bound,
                   tool_parser, wire, parser_log, solo_parser, solo_log,
                   disconnected, aborts, twoVars, ccVars, fnVars>>

\* the client disconnects; the generator is not told and reads nothing that
\* would tell it
ClientDisconnect ==
    /\ pc = "loop"
    /\ ~first_iteration
    /\ ~disconnected
    /\ disconnected' = TRUE
    /\ UNCHANGED <<req, pc, genLen, genFinish, idle, first_iteration, previous_texts,
                   previous_num_tokens, finish_reason_sent, prompt_tokens_bound,
                   tool_parser, wire, parser_log, solo_parser, solo_log,
                   aborts, twoVars, ccVars, fnVars>>

Next ==
    \/ \E adv \in [1..req.n -> 0..MaxStep], stops \in SUBSET (1..req.n) : Step(adv, stops)
    \/ EndOfStream
    \/ EngineValueError
    \/ EngineOtherError
    \/ ParserConstructionError
    \/ ClientDisconnect

Spec == Init /\ [][Next]_vars

\* the engine yields a result for every token: each unfinished choice has one
\* token more, and a choice in stops ends there with "length"
TokenStep(stops) ==
    Step([k \in 1..req.n |-> IF genFinish[k] = "" THEN 1 ELSE 0], stops)

NextTokens ==
    \/ \E stops \in SUBSET (1..req.n) : TokenStep(stops)
    \/ EndOfStream

\* the streams in which the model output arrives token by token
SpecTokens == Init /\ [][NextTokens]_vars

\* Hi[TOOL_CALLS][{'name': 'fg', 'arguments': {'k': 'a'}}, {'name': 'hi', 'arguments': {}}],
\* both names cut in two
MistralNames ==
    <<[id |-> 1, text |-> <<"H","i">>],
      [id |-> 5, text |-> <<"[","T","O","O","L","_","C","A","L","L","S","]">>],
      [id |-> 1, text |-> <<"[","{","'","n","a","m","e","'",":"," ","'","f">>],
      [id |-> 1, text |-> <<"g","'",","," ","'","a","r","g","u","m","e","n","t","s","'",":"," ">>],
      [id |-> 1, text |-> <<"{">>],
      [id |-> 1, text |-> <<"'","k","'",":"," ","'","a","'","}">>],
      [id |-> 1, text |-> <<"}",","," ","{","'","n","a","m","e","'",":"," ","'","h">>],
      [id |-> 1, text |-> <<"i","'">>],
      [id |-> 1, text |-> <<","," ","'","a","r","g","u","m","e","n","t","s","'",":"," ","{","}","}","]">>]>>

\* <tool_call>{"name": "fg", "arguments": {}}</tool_call><tool_call>{"name": "hi", "arguments": {"k": "a"}}</tool_call>,
\* both names cut in two
HermesNames ==
    <<[id |-> 6, text |-> <<"<","t","o","o","l","_","c","a","l","l",">">>],
      [id |-> 1, text |-> <<"{","\"","n","a","m","e","\"",":"," ","\"","f">>],
      [id |-> 1, text |-> <<"g","\"",","," ","\"","a","r","g","u","m","e","n","t","s","\"",":"," ","{","}","}">>],
      [id |-> 7, text |-> <<"<","/","t","o","o","l","_","c","a","l","l",">">>],
      [id |-> 6, text |-> <<"<","t","o","o","l","_","c","a","l","l",">">>],
      [id |-> 1, text |-> <<"{","\"","n","a","m","e","\"",":"," ","\"","h">>],
      [id |-> 1, text |-> <<"i","\"",","," ","\"","a","r","g","u","m","e","n","t","s","\"",":"," ","{","\"","k","\"",":"," ","\"","a","\"","}","}">>],
      [id |-> 7, text |-> <<"<","/","t","o","o","l","_","c","a","l","l",">">>]>>

\* [TOOL_CALLS][{'name': 'f', 'arguments': {'k': 'a'}}, {'name': 'g', ...}, {'name': 'h', ...},
\* {'name': 'i', ...}], every call after the first one token
MistralFour ==
    <<[id |-> 5, text |-> <<"[","T","O","O","L","_","C","A","L","L","S","]">>],
      [id |-> 1, text |-> <<"[","{","'","n","a","m","e","'",":"," ","'","f","'">>],
      [id |-> 1, text |-> <<","," ","'","a","r","g","u","m","e","n","t","s","'",":"," ","{","'","k","'",":"," ","'","a","'","}","}">>],
      [id |-> 1, text |-> <<","," ","{","'","n","a","m","e","'",":"," ","'","g","'",","," ","'","a","r","g","u","m","e","n","t","s","'",":"," ","{","'","k","'",":"," ","'","a","'","}","}">>],
      [id |-> 1, text |-> <<","," ","{","'","n","a","m","e","'",":"," ","'","h","'",","," ","'","a","r","g","u","m","e","n","t","s","'",":"," ","{","'","k","'",":"," ","'","a","'","}","}">>],
      [id |-> 1, text |-> <<","," ","{","'","n","a","m","e","'",":"," ","'","i","'",","," ","'","a","r","g","u","m","e","n","t","s","'",":"," ","{","'","k","'",":"," ","'","a","'","}","}","]">>]>>

(***************************************************************************)
(* The same generator on requests whose model output holds several tool    *)
(* calls, and on a request with two choices that asks for the usage.       *)
(***************************************************************************)
CallRequests ==
    {Req(1, "mistral", "auto", TRUE, "off", <<MistralNames>>),
     Req(1, "hermes", "auto", TRUE, "off", <<HermesNames>>),
     Req(1, "mistral", "auto", TRUE, "off", <<MistralFour>>),
     Req(2, "none", "none", FALSE, "final", <<PlainScript, PlainScript>>)}

InitCalls ==
    /\ req \in CallRequests
    /\ pc = "loop"
    /\ genLen = [k \in 1..req.n |-> 0]
    /\ genFinish = [k \in 1..req.n |-> ""]
    /\ idle = 0
    /\ first_iteration = TRUE
    /\ previous_texts = [k \in 1..req.n |-> <<>>]
    /\ previous_num_tokens = [k \in 1..req.n |-> 0]
    /\ finish_reason_sent = [k \in 1..req.n |-> FALSE]
    /\ prompt_tokens_bound = FALSE
    /\ tool_parser = NewParser
    /\ wire = <<>>
    /\ parser_log = <<>>
    /\ solo_parser = [k \in 1..req.n |-> NewParser]
    /\ solo_log = [k \in 1..req.n |-> <<>>]
    /\ disconnected = FALSE
    /\ aborts = 0
    /\ heap = <<>>
    /\ tasks = <<>>
    /\ cc = <<>>
    /\ fncall = <<>>

SpecCalls == InitCalls /\ [][Next]_vars

(***************************************************************************)
(* Two streaming requests on one server.  OpenAIServingChat holds the       *)
(* parser class in self.tool_parser; every call of                          *)
(* chat_completion_stream_generator makes its own instance and its own      *)
(* locals.  heap holds the ToolParser objects made so far, a task refers to *)
(* its parser by its place in heap.                                         *)
(***************************************************************************)
oneVars == <<req, pc, genLen, genFinish, idle, first_iteration, previous_texts,
             previous_num_tokens, finish_reason_sent, prompt_tokens_bound,
             tool_parser, wire, parser_log, solo_parser, solo_log,
             disconnected, aborts>>

\* the most engine steps of one task that add no token
MaxTaskIdle == 1

\* the requests that run side by side
TaskRequests ==
    {Req(1, "mistral", "auto", TRUE, "off", <<MistralShort>>),
     Req(1, "mistral", "auto", TRUE, "off", <<PlainScript>>)}

\* variant of Construct: the server hands every request the same instance
ConstructShared(h) ==
    IF Len(h) = 0 THEN [heap |-> <<NewParser>>, ref |-> 1]
    ELSE [heap |-> h, ref |-> 1]

\* `self.tool_parser(tokenizer)`: a new object with the fields __init__ sets
Construct(h) == [heap |-> Append(h, NewParser), ref |-> Len(h) + 1]

\* the locals of a generator that has just been called
NewLocals(r) ==
    [previous_texts |-> [k \in 1..r.n |-> <<>>],
     previous_num_tokens |-> [k \in 1..r.n |-> 0],
     finish_reason_sent |-> [k \in 1..r.n |-> FALSE],
     prompt_tokens_bound |-> FALSE,
     tool_parser |-> NewParser,
     wire |-> <<>>,
     delta_message |-> NoDelta,
     raised |-> FALSE,
     parser_log |-> <<>>,
     solo_parser |-> [k \in 1..r.n |-> NewParser],
     solo_log |-> [k \in 1..r.n |-> <<>>]]

\* a task: the request, where the generator is, the engine's progress on the
\* request, the generator's locals with the parser held by reference, and
\* `alone`: the locals of the same request served with nothing beside it
NewTask(r) ==
    [req |-> r, pc |-> "new", ref |-> 0, genLen |-> [k \in 1..r.n |-> 0],
     genFinish |-> [k \in 1..r.n |-> ""], idle |-> 0, first_iteration |-> TRUE,
     st |-> NewLocals(r), alone |-> NewLocals(r)]

InitTwo ==
    /\ req = Req(1, "none", "none", FALSE, "off", <<PlainScript>>)
    /\ pc = "done"
    /\ genLen = <<0>>
    /\ genFinish = <<"">>
    /\ idle = 0
    /\ first_iteration = TRUE
    /\ previous_texts = <<<<>>>>
    /\ previous_num_tokens = <<0>>
    /\ finish_reason_sent = <<FALSE>>
    /\ prompt_tokens_bound = FALSE
    /\ tool_parser = NewParser
    /\ wire = <<>>
    /\ parser_log = <<>>
    /\ solo_parser = <<NewParser>>
    /\ solo_log = <<<<>>>>
    /\ disconnected = FALSE
    /\ aborts = 0
    /\ cc = <<>>
    /\ fncall = <<>>
    /\ heap = <<>>
    /\ tasks \in [1..2 -> {NewTask(r) : r \in TaskRequests}]

\* the generator of task t runs up to its try block: locals and parser
TaskStart(t) ==
    /\ tasks[t].pc = "new"
    /\ heap' = Construct(heap).heap
    /\ tasks' = [tasks EXCEPT ![t].pc = "loop", ![t].ref = Construct(heap).ref]
    /\ UNCHANGED <<oneVars, ccVars, fnVars>>

\* the locals at the start of a loop body of a task
TaskStarted(r, first, st) ==
    IF first
    THEN [st EXCEPT !.wire = @ \o RoleChunks(r),
                    !.prompt_tokens_bound = r.usage = "continuous"]
    ELSE st

\* the engine's next RequestOutput for task t, as EngineOutput
TaskOutput(tk, adv, stops) ==
    [tk EXCEPT
       !.genLen = [k \in 1..tk.req.n |-> tk.genLen[k] + adv[k]],
       !.genFinish = [k \in 1..tk.req.n |->
                         IF tk.genFinish[k] # "" THEN tk.genFinish[k]
                         ELSE IF adv[k] > 0 /\ tk.genLen[k] + adv[k] = Len(tk.req.scripts[k])
                         THEN "stop"
                         ELSE IF k \in stops THEN "length"
                         ELSE ""],
       !.idle = IF \A k \in 1..tk.req.n : adv[k] = 0 THEN @ + 1 ELSE @,
       !.first_iteration = FALSE]

\* the task with the locals its loop body leaves
Settled(tk, after, alone) ==
    [tk EXCEPT !.st = after, !.alone = alone,
               !.pc = IF after.raised THEN "raised" ELSE "loop"]

\* the loop body of a task on the output the engine has produced, run on the
\* task's locals with the object its reference leads to ("st") and on the
\* locals of the request served alone ("alone")
Handled(tk, first, parser) ==
    [w \in {"st", "alone"} |->
        ProcessOutputs(tk.req,
            TaskStarted(tk.req, first,
                IF w = "st" THEN [tk.st EXCEPT !.tool_parser = parser] ELSE tk.alone),
            tk.genLen, tk.genFinish, 0)]

\* task t becomes tk; the parser object it refers to takes the state the
\* loop body left
Stored(t, tk) ==
    /\ tasks' = [tasks EXCEPT ![t] = tk]
    /\ heap' = [heap EXCEPT ![tk.ref] = tk.st.tool_parser]

\* one iteration of `async for res in result_generator` in task t
TaskStep(t, adv, stops) ==
    /\ tasks[t].pc = "loop"
    /\ \E k \in 1..tasks[t].req.n : tasks[t].genFinish[k] = ""
    /\ \A k \in 1..tasks[t].req.n :
          /\ tasks[t].genFinish[k] # "" => adv[k] = 0 /\ k \notin stops
          /\ tasks[t].genLen[k] + adv[k] <= Len(tasks[t].req.scripts[k])
          /\ k \in stops => adv[k] > 0
                            /\ tasks[t].genLen[k] + adv[k] < Len(tasks[t].req.scripts[k])
    /\ (\A k \in 1..tasks[t].req.n : adv[k] = 0) => tasks[t].idle < MaxTaskIdle
    /\ \E tk \in {TaskOutput(tasks[t], adv, stops)} :
          \E after \in {Handled(tk, tasks[t].first_iteration, heap[tasks[t].ref])} :
             Stored(t, Settled(tk, after.st, after.alone))
    /\ UNCHANGED <<oneVars, ccVars, fnVars>>

\* the locals after the engine iterator of a task is exhausted
Ended(r, st) ==
    IF r.usage = "off" THEN [st EXCEPT !.wire = Append(@, DoneChunk)]
    ELSE IF st.prompt_tokens_bound
    THEN [st EXCEPT !.wire = @ \o <<UsageChunk, DoneChunk>>]
    ELSE [st EXCEPT !.raised = TRUE]

\* the engine iterator of task t is exhausted
TaskEnd(t) ==
    /\ tasks[t].pc = "loop"
    /\ \A k \in 1..tasks[t].req.n : tasks[t].genFinish[k] # ""
    /\ tasks' = [tasks EXCEPT
                   ![t].st = Ended(tasks[t].req, @),
                   ![t].alone = Ended(tasks[t].req, @),
                   ![t].pc = IF Ended(tasks[t].req, tasks[t].st).raised
                             THEN "raised" ELSE "done"]
    /\ UNCHANGED <<heap, oneVars, ccVars, fnVars>>

NextTwo ==
    \/ \E t \in 1..2 : TaskStart(t)
    \/ \E t \in 1..2 : \E adv \in [1..tasks[t].req.n -> 0..MaxStep],
                          stops \in SUBSET (1..tasks[t].req.n) : TaskStep(t, adv, stops)
    \/ \E t \in 1..2 : TaskEnd(t)

SpecTwo == InitTwo /\ [][NextTwo]_vars

(***************************************************************************)
(* create_chat_completion: what the server does with a request before a    *)
(* generator runs.  cc holds the request as far as these checks read it,   *)
(* the server's tool settings, the place in the function and what it made. *)
(***************************************************************************)
\* the most image_url parts of a request
MaxImages == 2

\* request.tool_choice: not given, "none", "auto", "required" or a
\* ChatCompletionNamedToolChoiceParam
ToolChoices == {"absent", "none", "auto", "required", "named"}

\* a request with what the calls made on it will do, and the server's setting
CreateInputs ==
    [tool_choice : ToolChoices,
     stream : BOOLEAN,
     model_known : BOOLEAN,
     template_ok : BOOLEAN,
     images : 0..MaxImages,
     image_loads : BOOLEAN,
     generate_ok : BOOLEAN,
     full_ok : BOOLEAN,
     enable_auto_tools : BOOLEAN]

\* self.tool_parser after __init__: a parser class exactly when auto tools are on
ParserSet(in) == in.enable_auto_tools

RequiredMessage == "tool_choice = \"required\" is not supported!"
AutoMessage == "\"auto\" tool choice requires --enable-auto-tool-choice and --tool-parser to be set"
ImagesMessage == "Multiple 'image_url' input is currently not supported."

\* `return self.create_error_response(message)`
ErrorResponse(c, message) ==
    [c EXCEPT !.pc = "returned", !.response = "error", !.message = message]

\* the function goes on to its next part
GoOn(c, part) == [c EXCEPT !.pc = part]

InitCreate ==
    /\ req = Req(1, "none", "none", FALSE, "off", <<PlainScript>>)
    /\ pc = "done"
    /\ genLen = <<0>>
    /\ genFinish = <<"">>
    /\ idle = 0
    /\ first_iteration = TRUE
    /\ previous_texts = <<<<>>>>
    /\ previous_num_tokens = <<0>>
    /\ finish_reason_sent = <<FALSE>>
    /\ prompt_tokens_bound = FALSE
    /\ tool_parser = NewParser
    /\ wire = <<>>
    /\ parser_log = <<>>
    /\ solo_parser = <<NewParser>>
    /\ solo_log = <<<<>>>>
    /\ disconnected = FALSE
    /\ aborts = 0
    /\ heap = <<>>
    /\ tasks = <<>>
    /\ fncall = <<>>
    /\ cc \in {[in |-> in, pc |-> "check_model", response |-> "none", message |-> "",
                engine_asked |-> FALSE] : in \in CreateInputs}

\* `error_check_ret = await self._check_model(request)`
CheckModel ==
    /\ cc.pc = "check_model"
    /\ cc' = IF cc.in.model_known THEN GoOn(cc, "template")
             ELSE ErrorResponse(cc, "model")
    /\ UNCHANGED <<oneVars, twoVars, fnVars>>

\* the try block that parses the messages and applies the chat template
ApplyChatTemplate ==
    /\ cc.pc = "template"
    /\ cc' = IF cc.in.template_ok THEN GoOn(cc, "multimodal")
             ELSE ErrorResponse(cc, "str(e)")
    /\ UNCHANGED <<oneVars, twoVars, fnVars>>

\* the try block around mm_futures
LoadMultiModal ==
    /\ cc.pc = "multimodal"
    /\ cc' = IF cc.in.images = 0 THEN GoOn(cc, "tool_choice")
             ELSE IF cc.in.images # 1 THEN ErrorResponse(cc, ImagesMessage)
             ELSE IF cc.in.image_loads THEN GoOn(cc, "tool_choice")
             ELSE ErrorResponse(cc, "str(e)")
    /\ UNCHANGED <<oneVars, twoVars, fnVars>>

\* `if request.tool_choice != 'required': return self.create_error_response(...)`
CheckToolChoice ==
    /\ cc.pc = "tool_choice"
    /\ cc' = IF cc.in.tool_choice # "required"
             THEN ErrorResponse(cc, RequiredMessage)
             ELSE GoOn(cc, "auto_tools")
    /\ UNCHANGED <<oneVars, twoVars, fnVars>>

\* `if request.tool_choice == 'auto' and not (self.enable_auto_tools and
\* self.tool_parser is not None)`
CheckAutoTools ==
    /\ cc.pc = "auto_tools"
    /\ cc' = IF cc.in.tool_choice = "auto"
                /\ ~(cc.in.enable_auto_tools /\ ParserSet(cc.in))
             THEN ErrorResponse(cc, AutoMessage)
             ELSE GoOn(cc, "generate")
    /\ UNCHANGED <<oneVars, twoVars, fnVars>>

\* the try block that tokenizes the prompt and calls the engine's generate;
\* a ValueError becomes an error response
Generate ==
    /\ cc.pc = "generate"
    /\ cc' = IF cc.in.generate_ok
             THEN [cc EXCEPT !.pc = "respond", !.engine_asked = TRUE]
             ELSE ErrorResponse(cc, "str(e)")
    /\ UNCHANGED <<oneVars, twoVars, fnVars>>

\* `if request.stream: return self.chat_completion_stream_generator(...)`,
\* else the full generator's ChatCompletionResponse or its ValueError
Respond ==
    /\ cc.pc = "respond"
    /\ cc' = IF cc.in.stream
             THEN [cc EXCEPT !.pc = "returned", !.response = "stream"]
             ELSE IF cc.in.full_ok
             THEN [cc EXCEPT !.pc = "returned", !.response = "full"]
             ELSE ErrorResponse(cc, "str(e)")
    /\ UNCHANGED <<oneVars, twoVars, fnVars>>

NextCreate ==
    \/ CheckModel
    \/ ApplyChatTemplate
    \/ LoadMultiModal
    \/ CheckToolChoice
    \/ CheckAutoTools
    \/ Generate
    \/ Respond

SpecCreate == InitCreate /\ [][NextCreate]_vars

(***************************************************************************)
(* extract_tool_calls on its own.  A model output is put together from the *)
(* text before the marker, the marker (or none) and a list of call         *)
(* objects, each of one shape; fncall holds the parts, the text they make  *)
(* and, once the call is made, its result.                                 *)
(***************************************************************************)
\* the most call objects in one model output
MaxCalls == 2

\* the shapes of a call object: three that are complete calls, one without
\* 'name', one without 'arguments', one cut off inside its arguments, one
\* that is a list
Shapes == {"f", "g", "nested", "noname", "noargs", "cut", "list"}
CompleteShapes == {"f", "g", "nested"}

\* the JSON text of a call object of the shape, with double quotes
ShapeText(shape) ==
    CASE shape = "f" -> <<"{",DQ,"n","a","m","e",DQ,":"," ",DQ,"f",DQ,","," ",DQ,"a","r","g","u","m","e","n","t","s",DQ,":"," ","{","}","}">>
      [] shape = "g" -> <<"{",DQ,"n","a","m","e",DQ,":"," ",DQ,"g",DQ,","," ",DQ,"a","r","g","u","m","e","n","t","s",DQ,":"," ","{",DQ,"k",DQ,":"," ",DQ,"v",DQ,"}","}">>
      [] shape = "nested" -> <<"{",DQ,"n","a","m","e",DQ,":"," ",DQ,"h",DQ,","," ",DQ,"a","r","g","u","m","e","n","t","s",DQ,":"," ","{",DQ,"k",DQ,":"," ","[","{","}","]","}","}">>
      [] shape = "noname" -> <<"{",DQ,"a","r","g","u","m","e","n","t","s",DQ,":"," ","{","}","}">>
      [] shape = "noargs" -> <<"{",DQ,"n","a","m","e",DQ,":"," ",DQ,"f",DQ,"}">>
      [] shape = "cut" -> <<"{",DQ,"n","a","m","e",DQ,":"," ",DQ,"f",DQ,","," ",DQ,"a","r","g","u","m","e","n","t","s",DQ,":"," ","{",DQ,"k",DQ,":"," ",DQ,"v",DQ>>
      [] shape = "list" -> <<"[",DQ,"f",DQ,"]">>

\* the name and the json.dumps of the arguments of a complete shape
ShapeCall(shape) ==
    CASE shape = "f" -> [name |-> <<"f">>, arguments |-> <<"{","}">>]
      [] shape = "g" -> [name |-> <<"g">>, arguments |-> <<"{",DQ,"k",DQ,":"," ",DQ,"v",DQ,"}">>]
      [] shape = "nested" -> [name |-> <<"h">>, arguments |-> <<"{",DQ,"k",DQ,":"," ","[","{","}","]","}">>]

\* a text with every double quote written as a single quote, as the Mistral
\* model writes its calls
SingleQuoted(s) == [k \in 1..Len(s) |-> IF s[k] = DQ THEN "'" ELSE s[k]]

RECURSIVE MistralList(_, _)
\* the call objects shapes[k..] of a Mistral output, separated by ", "
MistralList(shapes, k) ==
    IF k > Len(shapes) THEN <<>>
    ELSE SingleQuoted(ShapeText(shapes[k]))
         \o (IF k < Len(shapes) THEN <<",", " ">> ELSE <<>>)
         \o MistralList(shapes, k + 1)

\* a Mistral model output: text, [TOOL_CALLS], the list of calls
MistralOutput(in) ==
    in.prefix \o (IF in.marker THEN bot_token ELSE <<>>)
    \o <<"[">> \o MistralList(in.shapes, 1) \o <<"]">>

RECURSIVE HermesList(_, _, _, _)
\* the call objects shapes[k..] of a Hermes output, each between its tags;
\* the last one lacks its end tag unless closed
HermesList(shapes, k, marker, closed) ==
    IF k > Len(shapes) THEN <<>>
    ELSE (IF marker THEN tool_call_start_token ELSE <<>>)
         \o ShapeText(shapes[k])
         \o (IF marker /\ (closed \/ k < Len(shapes)) THEN tool_call_end_token ELSE <<>>)
         \o HermesList(shapes, k + 1, marker, closed)

\* a Hermes model output: text, then the tagged calls
HermesOutput(in) == in.prefix \o HermesList(in.shapes, 1, in.marker, in.closed)

\* the lists of at most MaxCalls shapes
ShapeLists == UNION {[1..n -> Shapes] : n \in 0..MaxCalls}

ExtractInputs ==
    [dialect : {"mistral", "hermes"},
     prefix : {<<>>, <<"H","i"," ">>},
     marker : BOOLEAN,
     closed : BOOLEAN,
     shapes : ShapeLists]

InitExtract ==
    /\ req = Req(1, "none", "none", FALSE, "off", <<PlainScript>>)
    /\ pc = "done"
    /\ genLen = <<0>>
    /\ genFinish = <<"">>
    /\ idle = 0
    /\ first_iteration = TRUE
    /\ previous_texts = <<<<>>>>
    /\ previous_num_tokens = <<0>>
    /\ finish_reason_sent = <<FALSE>>
    /\ prompt_tokens_bound = FALSE
    /\ tool_parser = NewParser
    /\ wire = <<>>
    /\ parser_log = <<>>
    /\ solo_parser = <<NewParser>>
    /\ solo_log = <<<<>>>>
    /\ disconnected = FALSE
    /\ aborts = 0
    /\ heap = <<>>
    /\ tasks = <<>>
    /\ cc = <<>>
    /\ fncall \in {[in |-> in,
                    model_output |-> IF in.dialect = "mistral" THEN MistralOutput(in)
                                     ELSE HermesOutput(in),
                    returned |-> FALSE,
                    out |-> Extracted(FALSE, <<>>, FALSE, <<>>)] : in \in ExtractInputs}

\* MistralToolParser.extract_tool_calls(model_output)
CallMistralExtract ==
    /\ fncall.in.dialect = "mistral"
    /\ ~fncall.returned
    /\ fncall' = [fncall EXCEPT !.returned = TRUE,
                                !.out = MistralExtract(fncall.model_output)]
    /\ UNCHANGED <<oneVars, twoVars, ccVars>>

\* Hermes2ProToolParser.extract_tool_calls(model_output)
CallHermesExtract ==
    /\ fncall.in.dialect = "hermes"
    /\ ~fncall.returned
    /\ fncall' = [fncall EXCEPT !.returned = TRUE,
                                !.out = HermesExtract(fncall.model_output)]
    /\ UNCHANGED <<oneVars, twoVars, ccVars>>

NextExtract ==
    \/ CallMistralExtract
    \/ CallHermesExtract

SpecExtract == InitExtract /\ [][NextExtract]_vars

(***************************************************************************)
(* The diff utilities on their own.  fncall holds the function called, its *)
(* arguments and, once the call is made, its result.                       *)
(***************************************************************************)
\* the longest string given to a diff utility as a part of its arguments
MaxLen == 2

\* the characters of the strings: a letter, a digit, and the punctuation of
\* JSON text
DiffChars == {"a", "1", ",", DQ, "}"}

\* the strings of at most MaxLen characters
Strings == UNION {[1..n -> DiffChars] : n \in 0..MaxLen}

\* what partial_json_parser and json.dumps put behind an unfinished value
Closers == {<<>>, <<"}">>, <<DQ, "}">>}

\* find_common_suffix(s1, s2) for any two of the strings; extract_intermediate_diff
\* (curr, old) for old = A ++ S and curr = A ++ X ++ S, args = <<A, X, S>>
DiffCalls(strings) ==
    {[fn |-> "find_common_suffix", args |-> <<s1, s2>>] : s1 \in strings, s2 \in strings}
    \cup {[fn |-> "extract_intermediate_diff", args |-> <<A, X, S>>] :
             A \in strings, X \in strings, S \in Closers}

InitDiff ==
    /\ req = Req(1, "none", "none", FALSE, "off", <<PlainScript>>)
    /\ pc = "done"
    /\ genLen = <<0>>
    /\ genFinish = <<"">>
    /\ idle = 0
    /\ first_iteration = TRUE
    /\ previous_texts = <<<<>>>>
    /\ previous_num_tokens = <<0>>
    /\ finish_reason_sent = <<FALSE>>
    /\ prompt_tokens_bound = FALSE
    /\ tool_parser = NewParser
    /\ wire = <<>>
    /\ parser_log = <<>>
    /\ solo_parser = <<NewParser>>
    /\ solo_log = <<<<>>>>
    /\ disconnected = FALSE
    /\ aborts = 0
    /\ heap = <<>>
    /\ tasks = <<>>
    /\ cc = <<>>
    /\ fncall \in {[fn |-> c.fn, args |-> c.args, returned |-> FALSE, out |-> <<>>] :
                     c \in DiffCalls(Strings)}

\* find_common_suffix(s1, s2)
CallFindCommonSuffix ==
    /\ fncall.fn = "find_common_suffix"
    /\ ~fncall.returned
    /\ fncall' = [fncall EXCEPT
                    !.returned = TRUE,
                    !.out = find_common_suffix(fncall.args[1], fncall.args[2])]
    /\ UNCHANGED <<oneVars, twoVars, ccVars>>

\* extract_intermediate_diff(A ++ X ++ S, A ++ S)
CallExtractIntermediateDiff ==
    /\ fncall.fn = "extract_intermediate_diff"
    /\ ~fncall.returned
    /\ fncall' = [fncall EXCEPT
                    !.returned = TRUE,
                    !.out = extract_intermediate_diff(
                                fncall.args[1] \o fncall.args[2] \o fncall.args[3],
                                fncall.args[1] \o fncall.args[3])]
    /\ UNCHANGED <<oneVars, twoVars, ccVars>>

NextDiff ==
    \/ CallFindCommonSuffix
    \/ CallExtractIntermediateDiff

SpecDiff == InitDiff /\ [][NextDiff]_vars

(***************************************************************************)
(* What the client has seen, read off the wire                             *)
(***************************************************************************)
Choices == 0..(req.n - 1)

\* positions of the chunks of choice i
ChunksOf(i) == {p \in 1..Len(wire) : wire[p].type = "choice" /\ wire[p].index = i}
RolePos(i) == {p \in ChunksOf(i) : wire[p].delta.kind = "role"}
DataPos(i) == ChunksOf(i) \ RolePos(i)
\* positions of the terminal chunks of choice i
FinishPos(i) == {p \in ChunksOf(i) : wire[p].finish_reason # ""}
\* a tool-call delta of choice i is on the wire at or before position q
ToolDeltaBy(i, q) == \E p \in ChunksOf(i) : p <= q /\ wire[p].delta.kind \in ToolKinds
\* the stream ran to its end: [DONE] sent and no error chunk
EndedNormally == pc = "done" /\ \A p \in 1..Len(wire) : wire[p].type # "error"

RECURSIVE ArgsConcat(_, _, _)
\* the function.arguments of the deltas log[1..k] for tool t, concatenated
ArgsConcat(log, k, t) ==
    IF k = 0 THEN <<>>
    ELSE ArgsConcat(log, k - 1, t)
         \o (IF log[k].d.kind = "args" /\ log[k].d.index = t THEN log[k].d.text ELSE <<>>)

RECURSIVE LogOf(_, _, _)
\* the deltas of log[1..k] that were returned for choice i
LogOf(log, k, i) ==
    IF k = 0 THEN <<>>
    ELSE LogOf(log, k - 1, i) \o (IF log[k].choice = i THEN <<log[k].d>> ELSE <<>>)

\* extract_tool_calls of the configured parser
ExtractComplete(r, model_output) ==
    IF r.parser = "mistral" THEN MistralExtract(model_output)
    ELSE HermesExtract(model_output)

(***************************************************************************)
(* Claims                                                                  *)
(***************************************************************************)

\* C1: every choice gets at most one role chunk, every content or tool-call
\* chunk of a choice comes after the role chunk of that choice, and once the
\* first engine result has been handled every choice has exactly one.
C1_RolePreamble ==
    \A i \in Choices :
        /\ Cardinality(RolePos(i)) <= 1
        /\ \A p \in DataPos(i) : \E q \in RolePos(i) : q < p
        /\ ~first_iteration => Cardinality(RolePos(i)) = 1

C1_Witness ==
    /\ pc = "done"
    /\ req.n = 2
    /\ \A i \in Choices : DataPos(i) # {} /\ Cardinality(RolePos(i)) = 1

\* C2: when the stream has run to its end, every choice for which the engine
\* reported a finish reason has a terminal chunk on the wire before [DONE].
C2_TerminalForEveryFinishedChoice ==
    EndedNormally => \A i \in Choices : genFinish[i + 1] # "" => FinishPos(i) # {}

\* C3: a choice has at most one terminal chunk, no chunk of the choice comes
\* after it, and finish_reason_sent[i] says whether it has been sent.
C3_OneTerminalLast ==
    \A i \in Choices :
        /\ Cardinality(FinishPos(i)) <= 1
        /\ \A q \in FinishPos(i) : \A p \in ChunksOf(i) : p <= q
        /\ finish_reason_sent[i + 1] <=> FinishPos(i) # {}

C3_Witness ==
    /\ req.n = 2
    /\ \E i \in Choices : \E q \in FinishPos(i) :
          \E p \in (q + 1)..Len(wire) : wire[p].type = "choice" /\ wire[p].index # i

\* C4: the terminal chunk of a choice that has had a tool-call delta has
\* finish_reason "tool_calls".
C4_ToolCallsFinishReason ==
    \A i \in Choices : \A q \in FinishPos(i) :
        ToolDeltaBy(i, q) => wire[q].finish_reason = "tool_calls"

\* C5: the terminal chunk of a choice that has had no tool-call delta has the
\* engine's finish reason for that choice.
C5_OverrideOnlyOwnToolCalls ==
    \A i \in Choices : \A q \in FinishPos(i) :
        ~ToolDeltaBy(i, q) => wire[q].finish_reason = genFinish[i + 1]

\* C6: the deltas the parser returned for a choice are those a parser of its
\* own, fed the same steps of that choice, returns.
C6_ParserStatePerChoice ==
    \A i \in Choices : LogOf(parser_log, Len(parser_log), i) = solo_log[i + 1]

\* C7: whenever current_tool_id >= 0, streamed_args_for_tool has
\* current_tool_id + 1 elements.
C7_StreamedLength ==
    tool_parser.current_tool_id >= 0 =>
        Len(tool_parser.streamed_args_for_tool) = tool_parser.current_tool_id + 1

\* C8: streamed_args_for_tool[t] is the concatenation of the arguments of
\* every delta the parser has returned for tool t.
C8_StreamedIsWhatWasReturned ==
    \A t \in 1..Len(tool_parser.streamed_args_for_tool) :
        tool_parser.streamed_args_for_tool[t]
            = ArgsConcat(parser_log, Len(parser_log), t - 1)

\* C9: when every engine step so far has added a token, streamed_args_for_tool[t]
\* is a prefix of json.dumps of the arguments of prev_tool_call_arr[t].
C9_StreamedIsPrefix ==
    idle = 0 =>
    \A t \in 1..Min(Len(tool_parser.streamed_args_for_tool),
                    Len(tool_parser.prev_tool_call_arr)) :
        HasKey(tool_parser.prev_tool_call_arr[t], KeyArguments) =>
            IsPrefix(tool_parser.streamed_args_for_tool[t],
                     Dumps(DictGet(tool_parser.prev_tool_call_arr[t], KeyArguments)))

\* C10: when the whole model output of a single choice has been streamed, in
\* steps that each added a token, the arguments deltas the parser returned for
\* tool t concatenate to streamed_args_for_tool[t], and that is the arguments
\* string extract_tool_calls gives for tool t.
C10_StreamedEqualsComplete ==
    (EndedNormally /\ req.n = 1 /\ UsesParser(req) /\ genFinish[1] = "stop" /\ idle = 0) =>
        LET W == TextOf(req.scripts[1], Len(req.scripts[1]))
            complete == ExtractComplete(req, W)
        IN  \A t \in 1..Len(complete.tool_calls) :
                /\ t <= Len(tool_parser.streamed_args_for_tool)
                /\ ArgsConcat(parser_log, Len(parser_log), t - 1)
                      = tool_parser.streamed_args_for_tool[t]
                /\ tool_parser.streamed_args_for_tool[t] = complete.tool_calls[t].arguments

\* positions of parser_log holding a delta of the given kind for tool t
Returns(kind, t) ==
    {p \in 1..Len(parser_log) : parser_log[p].d.kind = kind /\ parser_log[p].d.index = t}

C12_InitialNameArguments ==
    \A p \in 1..Len(parser_log) :
        LET d == parser_log[p].d
        IN  /\ d.kind = "args" => \E q \in Returns("name", d.index) : q < p
            /\ d.kind = "name" => \E q \in Returns("initial", d.index) : q < p

RECURSIVE WireArgs(_, _)
\* the function.arguments carried by the chunks wire[1..k] of choice i, over
\* all its tools, concatenated in emission order
WireArgs(i, k) ==
    IF k = 0 THEN <<>>
    ELSE WireArgs(i, k - 1)
         \o (IF wire[k].type = "choice" /\ wire[k].index = i /\ wire[k].delta.kind = "args"
             THEN wire[k].delta.text ELSE <<>>)

\* the model output of choice i so far, with the quotes the parser reads
Produced(i) == ReplaceQuotes(TextOf(req.scripts[i + 1], genLen[i + 1]))

\* C13: the arguments sent to the client for a choice never hold more double
\* quotes, ']' or '}' than the model has produced for that choice: a closer
\* the partial parse supplied is not sent ahead of the model.
C13_NoSpeculativeCloser ==
    (req.n = 1 /\ UsesParser(req) /\ idle = 0) =>
        \A c \in {DQ, "]", "}"} :
            Count(c, WireArgs(0, Len(wire))) <= Count(c, Produced(0))

\* C14: once the client has disconnected the generator yields no further
\* chunk, and when it leaves its loop it has called engine.abort exactly once
\* and has not raised.
C14_AbortOnDisconnect ==
    [][disconnected =>
          /\ wire' = wire
          /\ (pc = "loop" /\ pc' # "loop") => (aborts' = 1 /\ pc' # "raised")]_vars

\* positions of the chunks of the given type
TypePos(type) == {p \in 1..Len(wire) : wire[p].type = type}

\* C15: no exception leaves the generator, and an error is reported by a
\* single error chunk that [DONE] follows directly.
C15_NoExceptionEscapes ==
    /\ pc # "raised"
    /\ Cardinality(TypePos("error")) <= 1
    /\ \A p \in TypePos("error") : p < Len(wire) /\ wire[p + 1].type = "done"

\* C16: when the engine iterator is exhausted or the engine raises ValueError,
\* the generator ends by sending [DONE]; [DONE] is on the wire at most once,
\* as the last chunk, and only when the generator has ended.
C16_DoneLast ==
    [][/\ (pc = "loop" /\ pc' # "loop"
             /\ (\A k \in 1..req.n : genFinish[k] # "" \/ TypePos("error")' # {}))
          => (pc' = "done" /\ wire'[Len(wire')].type = "done")
       /\ TypePos("done")' \subseteq {Len(wire')}
       /\ TypePos("done")' # {} => pc' = "done"
       /\ pc = "done" => wire' = wire]_vars

\* C17: with include_usage, when the engine iterator is exhausted the
\* generator sends one usage chunk without choices, after every chunk of a
\* choice, and then [DONE].
C17_FinalUsageChunk ==
    [][(pc = "loop" /\ pc' # "loop" /\ req.usage # "off"
          /\ \A k \in 1..req.n : genFinish[k] # "")
       => /\ Len(wire') = Len(wire) + 2
          /\ wire'[Len(wire) + 1].type = "usage"
          /\ wire'[Len(wire) + 2].type = "done"
          /\ TypePos("usage") = {}]_vars

\* C18: with include_usage and continuous_usage_stats every chunk of a choice
\* carries usage and there is no usage chunk without choices; with
\* include_usage alone no chunk of a choice carries usage and a stream that
\* has ended holds exactly one usage chunk, after the last terminal chunk.
C18_UsageOneWay ==
    /\ req.usage = "continuous" =>
          /\ \A p \in TypePos("choice") : wire[p].usage
          /\ TypePos("usage") = {}
    /\ req.usage = "final" =>
          /\ \A p \in TypePos("choice") : ~wire[p].usage
          /\ Cardinality(TypePos("usage")) <= 1
          /\ \A p \in TypePos("usage") : \A q \in TypePos("choice") : q < p
          /\ EndedNormally => TypePos("usage") # {}

\* C19: each of two requests served side by side has a parser object of its
\* own, and its chunks and parser state are those of the request served alone.
C19_ParserPerRequest ==
    /\ \A t \in 1..2, u \in 1..2 :
          (t # u /\ tasks[t].ref # 0) => tasks[t].ref # tasks[u].ref
    /\ \A t \in 1..2 :
          /\ tasks[t].st.wire = tasks[t].alone.wire
          /\ tasks[t].ref # 0 => heap[tasks[t].ref] = tasks[t].alone.tool_parser

\* both requests are in the middle of the same tool-call text, each at a
\* place of its own
C19_Witness ==
    /\ \A t \in 1..2 :
          /\ tasks[t].pc = "loop"
          /\ tasks[t].req.scripts = <<MistralShort>>
          /\ tasks[t].genFinish[1] = ""
          /\ heap[tasks[t].ref] # NewParser
    /\ heap[tasks[1].ref] # heap[tasks[2].ref]

\* C20: a request whose tool_choice is "required" gets an error response and
\* the engine is never asked to generate for it; a request whose tool_choice
\* is absent, "none", "auto" or a named tool is never answered with the
\* error of this check.
C20_RejectsRequiredOnly ==
    /\ cc.in.tool_choice = "required" =>
          /\ ~cc.engine_asked
          /\ cc.response \in {"none", "error"}
          /\ cc.pc \notin {"auto_tools", "generate", "respond"}
    /\ cc.in.tool_choice # "required" => cc.message # RequiredMessage

RECURSIVE WireContent(_, _)
\* the content carried by the chunks wire[1..k] of choice i, concatenated in
\* emission order
WireContent(i, k) ==
    IF k = 0 THEN <<>>
    ELSE WireContent(i, k - 1)
         \o (IF wire[k].type = "choice" /\ wire[k].index = i /\ wire[k].delta.kind = "content"
             THEN wire[k].delta.text ELSE <<>>)

\* no tool-call region appears in choice i: the text is not forced into a
\* named call, and no tools are declared or the script never produces the
\* marker token of the dialect
NoToolRegion(i) ==
    /\ req.tool_choice # "named"
    /\ \/ ~req.tools
       \/ \A k \in 1..Len(req.scripts[i + 1]) :
             req.scripts[i + 1][k].id \notin {bot_token_id, tool_call_start_token_id}

\* C21: once a choice without a tool-call region has its terminal chunk, the
\* content of its chunks, the terminal one included, concatenates to the
\* engine's output text for the choice, and the terminal chunk carries the
\* engine's finish reason.
C21_PlainContentAndFinish ==
    \A i \in Choices : \A q \in FinishPos(i) :
        NoToolRegion(i) =>
            /\ WireContent(i, Len(wire)) = TextOf(req.scripts[i + 1], genLen[i + 1])
            /\ wire[q].finish_reason = genFinish[i + 1]

\* the marker is in the model output but its region cannot be matched or
\* parsed, or holds something that is not a call with 'name' and 'arguments'
Malformed(in) ==
    /\ in.marker
    /\ IF in.dialect = "mistral"
       THEN in.shapes = <<>> \/ \E k \in 1..Len(in.shapes) : in.shapes[k] \notin CompleteShapes
       ELSE \E k \in 1..Len(in.shapes) : in.shapes[k] \notin CompleteShapes

\* C22: extract_tool_calls returns for every model output, and for one whose
\* marker is present but whose region is malformed it returns
\* tools_called=false, no tool calls and the unmodified model output as content.
C22_FallbackOnParseFailure ==
    (fncall.returned /\ Malformed(fncall.in)) =>
        fncall.out = [tools_called |-> FALSE, tool_calls |-> <<>>,
                      hasContent |-> TRUE, content |-> fncall.model_output]

\* the fallback was returned for an output whose second call lacks 'arguments'
C22_Witness ==
    /\ fncall.returned
    /\ fncall.in.marker
    /\ fncall.in.shapes = <<"f", "noargs">>
    /\ ~fncall.out.tools_called
    /\ fncall.out.content = fncall.model_output

\* C23: when tools_called is false the content is the whole model output;
\* otherwise the content is the text before the first marker, None when that
\* text is empty, and tool_calls holds the calls of the output in their order.
C23_ContentAndCalls ==
    fncall.returned =>
        /\ ~fncall.out.tools_called =>
              fncall.out.hasContent /\ fncall.out.content = fncall.model_output
        /\ fncall.out.tools_called =>
              /\ fncall.out.hasContent = (fncall.in.prefix # <<>>)
              /\ fncall.out.hasContent => fncall.out.content = fncall.in.prefix
              /\ fncall.out.tool_calls =
                    [k \in 1..Len(fncall.in.shapes) |-> ShapeCall(fncall.in.shapes[k])]

\* two calls were extracted from an output that starts with the marker
C23_Witness ==
    /\ fncall.returned
    /\ fncall.out.tools_called
    /\ Len(fncall.out.tool_calls) = 2
    /\ fncall.out.tool_calls[1].name # fncall.out.tool_calls[2].name
    /\ fncall.in.prefix = <<>>

LastChars(s, k) == SubSeq(s, Len(s) - k + 1, Len(s))

\* the lengths k for which the last k characters of a and of b are the same
\* string without an alphanumeric character
SharedTails(a, b) ==
    {k \in 0..Min(Len(a), Len(b)) :
        /\ LastChars(a, k) = LastChars(b, k)
        /\ \A j \in 1..k : ~isalnum(LastChars(a, k)[j])}

\* C26: find_common_suffix(a, b) is the longest common suffix of a and b
\* without an alphanumeric character, it ends where the characters differ or
\* the shared character is alphanumeric, and it is the same for (b, a).
C26_CommonSuffix ==
    (fncall.fn = "find_common_suffix" /\ fncall.returned) =>
        LET a == fncall.args[1]
            b == fncall.args[2]
            n == Len(fncall.out)
        IN  /\ n \in SharedTails(a, b)
            /\ \A k \in SharedTails(a, b) : k <= n
            /\ fncall.out = LastChars(a, n)
            /\ \/ n = Min(Len(a), Len(b))
               \/ a[Len(a) - n] # b[Len(b) - n]
               \/ isalnum(a[Len(a) - n])
            /\ fncall.out = find_common_suffix(b, a)

\* the scan has stopped at a shared alphanumeric character behind shared
\* punctuation
C26_Witness ==
    /\ fncall.fn = "find_common_suffix"
    /\ fncall.returned
    /\ fncall.args = <<<<"a", "}">>, <<"a", "}">>>>
    /\ fncall.out = <<"}">>

\* C27: for old = A ++ S and curr = A ++ X ++ S, with S the closing quote and
\* brace behind an unfinished string value, extract_intermediate_diff(curr,
\* old) is X.
C27_DiffIsNewText ==
    (/\ fncall.fn = "extract_intermediate_diff" /\ fncall.returned
     /\ fncall.args[3] = <<DQ, "}">>) =>
        fncall.out = fncall.args[2]

RECURSIVE WireArgsOf(_, _, _)
\* the function.arguments carried for tool t by the chunks wire[1..k] of
\* choice i, concatenated in emission order
WireArgsOf(i, t, k) ==
    IF k = 0 THEN <<>>
    ELSE WireArgsOf(i, t, k - 1)
         \o (IF /\ wire[k].type = "choice" /\ wire[k].index = i
                /\ wire[k].delta.kind = "args" /\ wire[k].delta.index = t
             THEN wire[k].delta.text ELSE <<>>)

\* json.dumps of the arguments of the last tool call the parser has parsed
FinalArguments(tp) ==
    LET last == tp.prev_tool_call_arr[Len(tp.prev_tool_call_arr)]
    IN  Dumps(IF last.t = "o" /\ HasKey(last, KeyArguments)
              THEN DictGet(last, KeyArguments) ELSE EmptyDict)

\* C28: when the model has stopped, the terminal chunk of the only choice
\* carries tool-call arguments and the parser has streamed a proper prefix of
\* the serialization of the last tool's arguments, the arguments sent for that
\* tool over all chunks, the terminal one included, are that serialization,
\* and the terminal chunk names that tool's index.
C28_RemainderCompletes ==
    \A q \in FinishPos(0) :
        (/\ req.n = 1 /\ UsesParser(req) /\ genFinish[1] = "stop"
         /\ wire[q].delta.kind = "args"
         /\ Len(tool_parser.prev_tool_call_arr) > 0
         /\ Len(tool_parser.streamed_args_for_tool) = Len(tool_parser.prev_tool_call_arr)
         /\ Len(tool_parser.streamed_args_for_tool[Len(tool_parser.prev_tool_call_arr)])
               < Len(FinalArguments(tool_parser))
         /\ IsPrefix(tool_parser.streamed_args_for_tool[Len(tool_parser.prev_tool_call_arr)],
                     FinalArguments(tool_parser)))
        => /\ wire[q].delta.index = Len(tool_parser.prev_tool_call_arr) - 1
           /\ WireArgsOf(0, Len(tool_parser.prev_tool_call_arr) - 1, Len(wire))
                 = FinalArguments(tool_parser)

\* C29: whenever the driver calls extract_tool_calls_streaming for the only
\* choice of a request, in a step with new tokens or without, the arguments
\* satisfy current_text = previous_text ++ delta_text and
\* current_token_ids = previous_token_ids ++ delta_token_ids.
C29_ConsistentStepInputs ==
    [][(/\ req.n = 1 /\ UsesParser(req) /\ pc = "loop"
        /\ ~finish_reason_sent[1]
        /\ (genLen' # genLen \/ idle' # idle))
       => LET in == ParserInputs(req.scripts[1], previous_texts[1],
                                 previous_num_tokens[1], genLen'[1])
          IN  /\ in.current_text = in.previous_text \o in.delta_text
              /\ in.current_token_ids = in.previous_token_ids \o in.delta_token_ids]_vars

RECURSIVE WireCalls(_, _)
\* the arguments of the named tool calls carried by the chunks wire[1..k] of
\* choice i, concatenated in emission order
WireCalls(i, k) ==
    IF k = 0 THEN <<>>
    ELSE WireCalls(i, k - 1)
         \o (IF wire[k].type = "choice" /\ wire[k].index = i /\ wire[k].delta.kind = "call"
             THEN wire[k].delta.text ELSE <<>>)

RECURSIVE WireDeltas(_, _)
\* the deltas of the chunks wire[1..k] of choice i that come after the role
\* chunk and are not terminal
WireDeltas(i, k) ==
    IF k = 0 THEN <<>>
    ELSE WireDeltas(i, k - 1)
         \o (IF /\ wire[k].type = "choice" /\ wire[k].index = i
                /\ wire[k].delta.kind # "role" /\ wire[k].finish_reason = ""
             THEN <<wire[k].delta>> ELSE <<>>)

\* C30: for the only choice of a request: with a named tool_choice the parser
\* keeps its initial state, every chunk after the role chunk is a call of the
\* named function and the arguments of these calls are the text generated so
\* far, one delta_text per step; with tools, a parser and tool_choice None or
\* "auto" the chunks before the terminal one carry what the parser returned;
\* in every other case every chunk after the role chunk is content and the
\* contents are the text generated so far.
C30_ThreeWaysToBuildADelta ==
    req.n = 1 =>
        IF req.tool_choice = "named"
        THEN /\ tool_parser = NewParser
             /\ \A p \in DataPos(0) : wire[p].delta.kind = "call"
             /\ WireCalls(0, Len(wire)) = TextOf(req.scripts[1], genLen[1])
        ELSE IF UsesParser(req)
        THEN IsPrefix(WireDeltas(0, Len(wire)), LogOf(parser_log, Len(parser_log), 0))
        ELSE /\ \A p \in DataPos(0) : wire[p].delta.kind = "content"
             /\ WireContent(0, Len(wire)) = TextOf(req.scripts[1], genLen[1])

\* the whole model output of the only choice
FullText == TextOf(req.scripts[1], Len(req.scripts[1]))

\* C31: every function name the parser returns for the only choice is the
\* complete name of a tool call of the whole model output, for the Mistral
\* parser the name of the tool call the delta's index names: a name cut by a
\* step boundary is not sent before it is closed.
C31_CompleteName ==
    (req.n = 1 /\ UsesParser(req)) =>
        LET complete == ExtractComplete(req, FullText)
        IN  \A p \in 1..Len(parser_log) :
                LET d == parser_log[p].d
                IN  d.kind = "name" =>
                        /\ complete.tools_called
                        /\ \E k \in 1..Len(complete.tool_calls) :
                              /\ d.text = complete.tool_calls[k].name
                              /\ req.parser = "mistral" => k = d.index + 1

C31_Witness ==
    /\ pc = "done" /\ req.n = 1 /\ UsesParser(req)
    /\ \E p, q \in 1..Len(parser_log) :
          /\ p < q
          /\ parser_log[p].d.kind = "name" /\ parser_log[p].d.text = <<"f", "g">>
          /\ parser_log[q].d.kind = "name" /\ parser_log[q].d.text = <<"h", "i">>

\* the driver handles a new engine result for the only choice of the request
StepOfOnlyChoice ==
    /\ req.n = 1 /\ UsesParser(req) /\ pc = "loop" /\ ~finish_reason_sent[1]
    /\ (genLen' # genLen \/ idle' # idle)

\* the arguments of the parser call that step makes
StepInputs ==
    ParserInputs(req.scripts[1], previous_texts[1], previous_num_tokens[1], genLen'[1])

\* the array the Mistral parser parses out of current_text in a call that
\* gets as far as the parse, <<>> in every other call
MistralArray(tp, in) ==
    LET pieces == Split(in.current_text, bot_token)
        parsed == PartialLoads(ReplaceQuotes(pieces[2]), tp.current_tool_name_sent)
    IN  IF \/ ~InSeq(bot_token_id, in.current_token_ids)
           \/ (InSeq(bot_token_id, in.delta_token_ids) /\ Len(in.delta_token_ids) = 1)
           \/ Len(pieces) < 2
        THEN <<>>
        ELSE IF ~parsed.ok \/ parsed.v.t # "a" THEN <<>>
        ELSE Items(parsed.v)

\* C32: a Mistral step that finds the parsed array longer than
\* current_tool_id + 1 while current_tool_id >= 0 returns a delta only if part
\* of the serialized arguments of the previous tool is still unsent, and then
\* an arguments delta under the old current_tool_id; after the step
\* streamed_args_for_tool[old current_tool_id] is the serialization of the
\* previous tool's arguments, current_tool_id is the last index of the array
\* and both sent-flags are unset.
C32_NewToolFlushesPrevious ==
    [][(/\ StepOfOnlyChoice /\ req.parser = "mistral"
        /\ tool_parser.current_tool_id >= 0
        /\ Len(MistralArray(tool_parser, StepInputs)) > tool_parser.current_tool_id + 1)
       => LET old == tool_parser.current_tool_id
              arr == MistralArray(tool_parser, StepInputs)
              full == Dumps(DictGet(arr[old + 1], KeyArguments))
          IN  /\ old + 1 <= Len(tool_parser.streamed_args_for_tool)
              /\ Len(parser_log') > Len(parser_log) =>
                    /\ parser_log'[Len(parser_log')].d.kind = "args"
                    /\ parser_log'[Len(parser_log')].d.index = old
                    /\ tool_parser.streamed_args_for_tool[old + 1] # full
              /\ tool_parser'.streamed_args_for_tool[old + 1] = full
              /\ tool_parser'.current_tool_id = Len(arr) - 1
              /\ ~tool_parser'.current_tool_name_sent
              /\ ~tool_parser'.current_tool_initial_sent]_vars

\* the tool call a parser call compares with the previous step's, and the
\* arguments of the two: [hit, cur, prev, new_text]; hit says that the call
\* reaches the arguments branch with both tool calls at hand
ArgumentsCase(r, tp, in) ==
    LET id == tp.current_tool_id
        miss == [hit |-> FALSE, cur |-> NoneV, prev |-> NoneV, new_text |-> <<>>]
        arr == MistralArray(tp, in)
        starts == Count(tool_call_start_token_id, in.current_token_ids)
        pieces == Split(in.current_text, tool_call_start_token)
        parsed == PartialLoads(pieces[Len(pieces)], tp.current_tool_name_sent)
        grown == IF Len(tp.prev_tool_call_arr) <= id
                 THEN Append(tp.prev_tool_call_arr, EmptyDict)
                 ELSE tp.prev_tool_call_arr
        cur == IF r.parser = "mistral" THEN arr[id + 1] ELSE parsed.v
        before == IF r.parser = "mistral" THEN tp.prev_tool_call_arr ELSE grown
    IN  IF id < 0 \/ ~tp.current_tool_initial_sent \/ ~tp.current_tool_name_sent
        THEN miss
        ELSE IF r.parser = "mistral" /\ Len(arr) # id + 1 THEN miss
        ELSE IF /\ r.parser = "hermes"
                /\ \/ starts <= Count(tool_call_end_token_id, in.current_token_ids)
                   \/ starts # Count(tool_call_start_token_id, in.previous_token_ids)
                   \/ pieces[Len(pieces)] = <<>>
                   \/ ~parsed.ok
        THEN miss
        ELSE IF cur.t # "o" \/ Len(before) < id + 1 THEN miss
        ELSE IF before[id + 1].t # "o" THEN miss
        ELSE [hit |-> TRUE,
              cur |-> DictGet(cur, KeyArguments),
              prev |-> DictGet(before[id + 1], KeyArguments),
              new_text |-> IF r.parser = "mistral" THEN ReplaceQuotes(in.delta_text)
                           ELSE in.delta_text]

\* "arguments": as the model writes it
ArgumentsKey == <<DQ, "a", "r", "g", "u", "m", "e", "n", "t", "s", DQ, ":", " ">>

\* 0-based position of the last occurrence of sub in s, -1 if there is none
FindLast(s, sub) ==
    LET hits == {a \in 0..Len(s) : MatchAt(s, sub, a)}
    IN  IF hits = {} THEN -1 ELSE CHOOSE a \in hits : \A b \in hits : b <= a

\* what the model has written after the last "arguments": of current_text
ArgumentsWritten(r, in) ==
    LET text == IF r.parser = "mistral" THEN ReplaceQuotes(in.current_text)
                ELSE in.current_text
        at == FindLast(text, ArgumentsKey)
    IN  IF at = -1 THEN <<>> ELSE Slice(text, at + Len(ArgumentsKey), Len(text))

\* C33: in a step that finds arguments in the current tool call and none in
\* the previous step's, with the delta text occurring in the serialized
\* arguments, the parser returns the serialization up to and including the
\* first occurrence of the delta text as an arguments delta of the current
\* tool and appends it to streamed_args_for_tool[current_tool_id]; what it
\* returns is what the model has written of the arguments so far: all of it,
\* or the whole serialization when the model has closed the arguments.
C33_FirstArgumentsChunk ==
    [][(/\ StepOfOnlyChoice
        /\ ArgumentsCase(req, tool_parser, StepInputs).hit
        /\ Truthy(ArgumentsCase(req, tool_parser, StepInputs).cur)
        /\ ~Truthy(ArgumentsCase(req, tool_parser, StepInputs).prev)
        /\ Contains(Dumps(ArgumentsCase(req, tool_parser, StepInputs).cur),
                    ArgumentsCase(req, tool_parser, StepInputs).new_text))
       => LET case == ArgumentsCase(req, tool_parser, StepInputs)
              json == Dumps(case.cur)
              upto == Slice(json, 0, Find(json, case.new_text) + Len(case.new_text))
              id == tool_parser.current_tool_id
              written == ArgumentsWritten(req, StepInputs)
          IN  /\ Len(parser_log') = Len(parser_log) + 1
              /\ parser_log'[Len(parser_log')].d = Delta("args", id, upto)
              /\ id + 1 <= Len(tool_parser.streamed_args_for_tool)
              /\ tool_parser'.streamed_args_for_tool[id + 1]
                    = tool_parser.streamed_args_for_tool[id + 1] \o upto
              /\ IsPrefix(upto, written)
              /\ upto = written \/ upto = json]_vars

\* C34: a Mistral step whose current_token_ids do not hold the bot token id
\* returns delta_text as content and leaves the parser's state as it was; a
\* step whose current_token_ids hold it returns nothing or a tool-call delta,
\* and returns nothing when the marker is the only new token.
C34_ContentUntilMarker ==
    [][(StepOfOnlyChoice /\ req.parser = "mistral")
       => LET in == StepInputs
              returned == Len(parser_log') > Len(parser_log)
              d == parser_log'[Len(parser_log')].d
          IN  IF Count(bot_token_id, in.current_token_ids) = 0
              THEN /\ returned
                   /\ d = Delta("content", 0, in.delta_text)
                   /\ tool_parser' = tool_parser
              ELSE /\ returned => d.kind \in ToolKinds
                   /\ in.delta_token_ids = <<bot_token_id>> => ~returned]_vars

C34_Witness ==
    /\ req.n = 1 /\ req.parser = "mistral" /\ UsesParser(req)
    /\ Len(parser_log) >= 3
    /\ parser_log[1].d = Delta("content", 0, <<"H", "i">>)
    /\ \A p \in 2..Len(parser_log) : parser_log[p].d.kind \in ToolKinds
    /\ previous_num_tokens[1] = Len(req.scripts[1])

\* the accesses prev_tool_call_arr[current_tool_id] a Hermes call makes:
\* [closing, arguments] say in which branch, valid that the index is in range
HermesAccess(tp, in) ==
    LET id == tp.current_tool_id
        prev_start == Count(tool_call_start_token_id, in.previous_token_ids)
        prev_end == Count(tool_call_end_token_id, in.previous_token_ids)
        cur_start == Count(tool_call_start_token_id, in.current_token_ids)
        cur_end == Count(tool_call_end_token_id, in.current_token_ids)
        pieces == Split(in.current_text, tool_call_start_token)
        portion == pieces[Len(pieces)]
        parsed == PartialLoads(portion, tp.current_tool_name_sent)
        past == cur_start > 0 /\ ~(cur_start = cur_end /\ prev_end = cur_end)
        grown == IF Len(tp.prev_tool_call_arr) <= id
                 THEN Append(tp.prev_tool_call_arr, EmptyDict)
                 ELSE tp.prev_tool_call_arr
        closing == past /\ cur_start = cur_end /\ cur_end > prev_end
        arguments == /\ past /\ cur_start > cur_end /\ cur_start = prev_start
                     /\ (portion = <<>> \/ parsed.ok)
                     /\ tp.current_tool_initial_sent /\ tp.current_tool_name_sent
    IN  [closing |-> closing,
         arguments |-> arguments,
         valid |-> IF closing THEN PyIndex(tp.prev_tool_call_arr, id) # 0
                   ELSE PyIndex(grown, id) # 0]

\* C35: whenever a Hermes step reads prev_tool_call_arr[current_tool_id], to
\* close a tool call or to stream its arguments, the index is in range.
C35_ValidPrevIndex ==
    [][(/\ StepOfOnlyChoice /\ req.parser = "hermes"
        /\ \/ HermesAccess(tool_parser, StepInputs).closing
           \/ HermesAccess(tool_parser, StepInputs).arguments)
       => HermesAccess(tool_parser, StepInputs).valid]_vars

\* C36: between the steps of a single-choice Hermes request,
\* current_tool_id + 1 is the number of <tool_call> token ids among the tokens
\* the driver has handed to the parser so far.
C36_CursorCountsStartTags ==
    (req.n = 1 /\ UsesParser(req) /\ req.parser = "hermes") =>
        tool_parser.current_tool_id + 1
            = Count(tool_call_start_token_id,
                    IdsOf(req.scripts[1], previous_num_tokens[1]))

\* a Mistral call returns None out of its except clause
MistralCaught(tp, in) ==
    LET id == tp.current_tool_id
        pieces == Split(in.current_text, bot_token)
        parsed == PartialLoads(ReplaceQuotes(pieces[2]), tp.current_tool_name_sent)
        arr == Items(parsed.v)
        n == Len(arr)
        current_tool_call == arr[PyIndex(arr, id)]
        pIdx == PyIndex(tp.prev_tool_call_arr, id)
        sIdx == PyIndex(tp.streamed_args_for_tool, id)
        function_name == DictGet(current_tool_call, KeyName)
        cur_arguments == DictGet(current_tool_call, KeyArguments)
        prev_arguments == DictGet(tp.prev_tool_call_arr[pIdx], KeyArguments)
    IN  IF \/ ~InSeq(bot_token_id, in.current_token_ids)
           \/ (InSeq(bot_token_id, in.delta_token_ids) /\ Len(in.delta_token_ids) = 1)
        THEN FALSE
        \* no marker text, parse error, tool_call_arr[current_tool_id]
        ELSE IF Len(pieces) < 2 THEN TRUE
        ELSE IF ~parsed.ok \/ parsed.v.t = "o" THEN TRUE
        ELSE IF PyIndex(arr, id) = 0 THEN TRUE
        ELSE IF n > 0 /\ n > id + 1
        THEN /\ id >= 0
             /\ \/ current_tool_call.t # "o"
                \/ Truthy(cur_arguments) /\ sIdx = 0
        ELSE IF ~(n - 1 = id /\ id >= 0) THEN FALSE
        ELSE IF ~tp.current_tool_initial_sent THEN FALSE
        ELSE IF ~tp.current_tool_name_sent
        THEN \/ current_tool_call.t # "o"
             \/ Truthy(function_name) /\ function_name.t # "s"
        ELSE IF pIdx = 0 THEN TRUE
        ELSE IF tp.prev_tool_call_arr[pIdx].t # "o" \/ current_tool_call.t # "o" THEN TRUE
        ELSE IF ~Truthy(cur_arguments) THEN FALSE
        ELSE IF ~Truthy(prev_arguments)
        THEN Find(Dumps(cur_arguments), ReplaceQuotes(in.delta_text)) = -1 \/ sIdx = 0
        ELSE sIdx = 0

\* C37: a Mistral step that ends in the except clause returns nothing and
\* leaves prev_tool_call_arr, current_tool_id, current_tool_initial_sent,
\* current_tool_name_sent and streamed_args_for_tool as they were.
C37_CaughtLeavesState ==
    [][(/\ StepOfOnlyChoice /\ req.parser = "mistral"
        /\ MistralCaught(tool_parser, StepInputs))
       => /\ parser_log' = parser_log
          /\ tool_parser'.prev_tool_call_arr = tool_parser.prev_tool_call_arr
          /\ tool_parser'.current_tool_id = tool_parser.current_tool_id
          /\ tool_parser'.current_tool_initial_sent = tool_parser.current_tool_initial_sent
          /\ tool_parser'.current_tool_name_sent = tool_parser.current_tool_name_sent
          /\ tool_parser'.streamed_args_for_tool = tool_parser.streamed_args_for_tool]_vars

\* the parser has been given the whole of an output whose array does not
\* parse, after it had started on the tool call
C37_Witness ==
    /\ req.n = 1 /\ req.parser = "mistral" /\ UsesParser(req)
    /\ req.scripts[1] = MistralBroken
    /\ previous_num_tokens[1] = Len(MistralBroken)
    /\ ~PartialLoads(ReplaceQuotes(Split(previous_texts[1], bot_token)[2]), TRUE).ok
    /\ tool_parser.current_tool_id = 0

\* positions of the chunks on w that carry a tool-call delta
ToolPos(w) ==
    {p \in 1..Len(w) : w[p].type = "choice" /\ w[p].delta.kind \in ToolKinds}

\* C38: in no step does current_tool_id decrease, streamed_args_for_tool lose
\* an element or one of its elements get shorter; and the tool indices of the
\* tool-call deltas sent for the only choice of a request, the delta of the
\* terminal chunk included, never decrease along the stream.
C38_CursorAndIndicesMonotonic ==
    [][UsesParser(req) =>
          /\ tool_parser'.current_tool_id >= tool_parser.current_tool_id
          /\ Len(tool_parser'.streamed_args_for_tool)
                >= Len(tool_parser.streamed_args_for_tool)
          /\ \A t \in 1..Len(tool_parser.streamed_args_for_tool) :
                Len(tool_parser'.streamed_args_for_tool[t])
                    >= Len(tool_parser.streamed_args_for_tool[t])
          /\ req.n = 1 =>
                \A p, q \in ToolPos(wire') :
                    p < q => wire'[p].delta.index <= wire'[q].delta.index]_vars

(***************************************************************************)
(* chat_completion_full_generator: what it reports for one output of the   *)
(* final RequestOutput                                                     *)
(***************************************************************************)
\* tools_called after the branches that build the message
ToolsCalled(r, text) ==
    IF r.tool_choice = "named" THEN TRUE
    \* `not request.tool_choice or request.tool_choice == "none"`
    ELSE IF r.tool_choice = "none" THEN FALSE
    ELSE IF r.tools /\ r.tool_choice = "auto" /\ r.parser # "none"
    THEN ExtractComplete(r, text).tools_called
    ELSE FALSE

\* finish_reason of the ChatCompletionResponseChoice
FullFinish(r, text, finish_reason) ==
    IF ToolsCalled(r, text) THEN "tool_calls"
    ELSE IF finish_reason # "" THEN finish_reason
    ELSE "stop"

\* C39: under tool_choice "auto" with a parser, the terminal chunk of a choice
\* has finish_reason "tool_calls" exactly when chat_completion_full_generator
\* reports "tool_calls" for the same final output, that is when
\* extract_tool_calls finds tool calls in the choice's final text.
C39_SameFinishReason ==
    (req.tool_choice = "auto" /\ UsesParser(req)) =>
        \A i \in Choices : \A q \in FinishPos(i) :
            wire[q].finish_reason = "tool_calls"
                <=> FullFinish(req, TextOf(req.scripts[i + 1], genLen[i + 1]),
                               genFinish[i + 1]) = "tool_calls"

\* res.prompt_token_ids of the request
prompt_token_ids == <<1, 1, 1>>

UsageInfo(prompt_tokens, completion_tokens) ==
    [prompt_tokens |-> prompt_tokens,
     completion_tokens |-> completion_tokens,
     total_tokens |-> prompt_tokens + completion_tokens]

\* final_usage of the stream: i is what the last pass of
\* `for output in res.outputs` left in it, the index of the last choice
final_usage ==
    UsageInfo(Len(prompt_token_ids), previous_num_tokens[(req.n - 1) + 1])

RECURSIVE SumLen(_, _)
\* sum(len(output.token_ids) for output in final_res.outputs), outputs 1..k
SumLen(len, k) == IF k = 0 THEN 0 ELSE SumLen(len, k - 1) + len[k]

\* usage of the ChatCompletionResponse built from the final RequestOutput
FullUsage == UsageInfo(Len(prompt_token_ids), SumLen(genLen, req.n))

\* C40: when the stream has sent its final usage chunk, the usage in it is
\* the usage of the non-streaming response to the same engine outputs:
\* prompt_tokens the prompt length, completion_tokens the generated tokens of
\* all choices together, total_tokens their sum.
C40_SameUsage ==
    (\E p \in 1..Len(wire) : wire[p].type = "usage") =>
        /\ final_usage = FullUsage
        /\ final_usage.total_tokens
              = final_usage.prompt_tokens + final_usage.completion_tokens

====
